---- MODULE Spec2Model ----
(***************************************************************************)
(* Airtable-clone: the optimistic table view (tableView.tsx, DataGrid.tsx) *)
(* and the tRPC routers it talks to (table.ts and its validating variant). *)
(*                                                                         *)
(* Specifications:                                                         *)
(*   Spec          the table view of one table, with the server behind it  *)
(*   SpecValidate  the client and server NUMBER validators, as functions   *)
(*   SpecPage      rowRouter.getByTableIdInfinite, followed by its cursor  *)
(*   SpecServer    rowRouter.create / columnRouter.create, statement by    *)
(*                 statement, interleaved                                  *)
(*   SpecApi       the routers called one request after another by two  *)
(*                 users, in each variant of the router file               *)
(***************************************************************************)
EXTENDS Integers, Sequences, FiniteSets, TLC

VARIABLES
  \* ---- SpecValidate
  vInput,             \* the string handed to the validators
  vClient,            \* result of the client validator
  vServer,            \* result of the server validator
  vPhase              \* "input" | "done" | "off"

  ,
  \* ---- the database behind the routers (Prisma models Row, Column, Cell)
  dbRows,             \* row id -> position
  dbColumns,          \* column id -> [type, position]
  dbCells,            \* <<row id, column id>> -> value; @@unique([rowId, columnId])
  nextRowId,          \* ids handed out so far (cuid() is fresh on every create)
  nextColId,
  \* ---- SpecPage
  pgLimit,            \* input.limit
  pgCursor,           \* the cursor of the next call, NoId on the first one
  pgPages,            \* the responses so far, in order
  pgPhase,            \* "first" | "more" | "done" | "off"
  \* ---- SpecServer
  srvReqs,            \* request number -> the request's position and locals
  \* ---- SpecApi: the database of all users (Prisma models Base .. Cell)
  apiVariant,         \* the router file that serves the requests
  apiBases,           \* base id -> [userId]
  apiTables,          \* table id -> [baseId]
  apiColumns,         \* column id -> [tableId, type, position]
  apiRows,            \* row id -> [tableId, position]
  apiCells,           \* the Cell records [id, rowId, columnId, value]
  apiNext,            \* ids handed out so far
  apiTx,              \* the $transaction of tableRouter.create that is running
  apiLast,            \* the last request: [op, caller, input, owner, outcome, repeat]
  apiCalls,           \* requests that wrote so far (rolled back or not)
  apiGone,            \* history: what has been deleted
  \* ---- Spec: the React state of TableView
  tempCellValues,     \* temp row id -> (column id -> value)
  pendingChanges,     \* row id -> (column id -> [value, timestamp])
  tempToRealMapping,  \* temp row id -> real row id
  lastLocalChange,    \* Date.now() of the last handleCellUpdate
  validationErrors,   \* the cell keys <<row id, column id>> that carry an error
  \* ---- Spec: the query cache
  infiniteRowData,    \* row.getByTableIdInfinite: the pages loaded so far
  rowCache,           \* row.getByTableId: [loaded, rows: row id -> (column id -> value)]
  \* ---- Spec: requests in flight and the observers' view of them
  pageFetch,          \* the page request in flight, if any
  updReqs,            \* the updateCellMutation requests in flight
  lastUpd,            \* updateCellMutation.variables: the latest mutate call
  createReq,          \* the createRowMutation request in flight, if any
  flushes,            \* real row id -> the saveTempValues loop running for it
  \* ---- Spec: environment
  now,                \* Date.now()
  nEdits,             \* handleCellUpdate calls so far
  nAdds,              \* handleAddRow calls so far
  phase,              \* "view" | "error" | "off"
  \* ---- Spec: history
  localEdits,         \* <<row id, column id>> -> the last accepted edit of the cell, as the
                      \* user made it: [value, rapid: made while a write of the cell was
                      \* in flight, lost: a write of the cell has failed]
  \* ---- the grid's other requests
  cursorsFetched,     \* history: the cursors of the page requests sent so far, in order
  delReqs,            \* the deleteRowMutation requests in flight
  columnsCache,       \* the column.getByTableId cache: the column list the grid shows
  colReqs             \* the createColumnMutation requests in flight

valVars == <<vInput, vClient, vServer, vPhase>>
dbVars == <<dbRows, dbColumns, dbCells, nextRowId, nextColId>>
pageVars == <<pgLimit, pgCursor, pgPages, pgPhase>>
srvVars == <<srvReqs>>
apiDb == <<apiBases, apiTables, apiColumns, apiRows, apiCells>>
apiVars == <<apiVariant, apiDb, apiNext, apiTx, apiLast, apiCalls, apiGone>>
regVars == <<tempCellValues, tempToRealMapping>>
cacheVars == <<infiniteRowData, rowCache>>
reqVars == <<pageFetch, updReqs, lastUpd, createReq, flushes>>
envVars == <<now, nEdits, nAdds, phase>>
cliVars == <<regVars, pendingChanges, lastLocalChange, validationErrors, cacheVars, reqVars, envVars,
             localEdits>>

gridVars == <<cursorsFetched, delReqs, columnsCache, colReqs>>

vars == <<valVars, dbVars, pageVars, srvVars, apiVars, cliVars, gridVars>>

NULL == "null"

\* an absent id (undefined cursor, no linked temp row, no real row yet)
NoId == <<"none", 0>>

\* idle values of the query cache and of the request slots
NoRows == [loaded |-> FALSE, rows |-> <<>>]
NoPage == [items |-> <<>>, nextCursor |-> NoId]
NoFetch == [cursor |-> NoId, stage |-> "idle", page |-> NoPage]
NoUpd == [n |-> 0, rowId |-> NoId, columnId |-> NoId]
NoCreate == [tempRowId |-> NoId, stage |-> "idle", realRow |-> NoId]

(***************************************************************************)
(* Each specification uses its own part of the state; the parts it does    *)
(* not use stay at these values.                                           *)
(***************************************************************************)
ValOff ==
  /\ vInput = <<>>
  /\ vClient = NULL
  /\ vServer = NULL
  /\ vPhase = "off"

PageOff ==
  /\ pgLimit = 0
  /\ pgCursor = NoId
  /\ pgPages = <<>>
  /\ pgPhase = "off"

SrvOff == srvReqs = <<>>

GridOff ==
  /\ cursorsFetched = <<>>
  /\ delReqs = {}
  /\ columnsCache = <<>>
  /\ colReqs = {}

CliOff ==
  /\ tempCellValues = <<>>
  /\ pendingChanges = <<>>
  /\ tempToRealMapping = <<>>
  /\ lastLocalChange = 0
  /\ validationErrors = {}
  /\ infiniteRowData = <<>>
  /\ rowCache = NoRows
  /\ pageFetch = NoFetch
  /\ updReqs = {}
  /\ lastUpd = NoUpd
  /\ createReq = NoCreate
  /\ flushes = <<>>
  /\ now = 0
  /\ nEdits = 0
  /\ nAdds = 0
  /\ phase = "off"
  /\ localEdits = <<>>

DbEmpty ==
  /\ dbRows = <<>>
  /\ dbColumns = <<>>
  /\ dbCells = <<>>
  /\ nextRowId = 1
  /\ nextColId = 1

\* no $transaction is running; no request has been served
NoTx == [pc |-> "idle", caller |-> "nobody", baseId |-> NoId, tableId |-> NoId,
         saved |-> <<>>]
NoCall == [op |-> "none", caller |-> "nobody", input |-> <<>>, owner |-> "nobody",
           outcome |-> "none", repeat |-> FALSE]

ApiOff ==
  /\ apiVariant = "off"
  /\ apiBases = <<>>
  /\ apiTables = <<>>
  /\ apiColumns = <<>>
  /\ apiRows = <<>>
  /\ apiCells = {}
  /\ apiNext = 0
  /\ apiTx = NoTx
  /\ apiLast = NoCall
  /\ apiCalls = 0
  /\ apiGone = {}

(***************************************************************************)
(* Strings are sequences of one-character strings.                         *)
(***************************************************************************)
Digits == {"0", "1", "2", "3", "4", "5", "6", "7", "8", "9"}

DigitVal(ch) ==
  CASE ch = "0" -> 0 [] ch = "1" -> 1 [] ch = "2" -> 2 [] ch = "3" -> 3
    [] ch = "4" -> 4 [] ch = "5" -> 5 [] ch = "6" -> 6 [] ch = "7" -> 7
    [] ch = "8" -> 8 [] ch = "9" -> 9

WhiteSpace == {" "}

RECURSIVE TrimStart(_)
TrimStart(s) ==
  IF s # <<>> /\ Head(s) \in WhiteSpace THEN TrimStart(Tail(s)) ELSE s

RECURSIVE TrimEnd(_)
TrimEnd(s) ==
  IF s # <<>> /\ s[Len(s)] \in WhiteSpace
  THEN TrimEnd(SubSeq(s, 1, Len(s) - 1))
  ELSE s

\* String.prototype.trim
Trim(s) == TrimEnd(TrimStart(s))

\* length of the maximal run of digits of s that starts at index i
RECURSIVE DigitRun(_, _)
DigitRun(s, i) ==
  IF i <= Len(s) /\ s[i] \in Digits THEN 1 + DigitRun(s, i + 1) ELSE 0

(***************************************************************************)
(* /^-?(\d+\.?\d*|\.\d+)([eE][+-]?\d+)?$/ , matched left to right.  The    *)
(* pieces are separated by disjoint character classes, so the greedy scan  *)
(* below accepts exactly what the backtracking matcher accepts.            *)
(***************************************************************************)
numberRegex(s) ==
  LET i0 == IF s # <<>> /\ s[1] = "-" THEN 2 ELSE 1
      n1 == DigitRun(s, i0)
      i1 == i0 + n1
      hasDot == i1 <= Len(s) /\ s[i1] = "."
      i2 == IF hasDot THEN i1 + 1 ELSE i1
      n2 == IF hasDot THEN DigitRun(s, i2) ELSE 0
      eStart == i2 + n2
      hasExp == eStart <= Len(s) /\ s[eStart] \in {"e", "E"}
      j0 == eStart + 1
      j1 == IF j0 <= Len(s) /\ s[j0] \in {"+", "-"} THEN j0 + 1 ELSE j0
      ne == DigitRun(s, j1)
  IN  /\ \/ n1 >= 1                      \* \d+\.?\d*
         \/ n1 = 0 /\ hasDot /\ n2 >= 1  \* \.\d+
      /\ IF hasExp THEN ne >= 1 /\ j1 + ne = Len(s) + 1
                   ELSE eStart = Len(s) + 1

\* tableView.tsx validateNumber
validateNumber(value) ==
  IF Trim(value) = <<>> THEN TRUE ELSE numberRegex(Trim(value))

\* a getValidationError that reports no error for any value
getValidationErrorNone(value, columnType) == NULL

\* tableView.tsx getValidationError: NULL or the error message
getValidationError(value, columnType) ==
  IF columnType = "NUMBER" /\ Trim(value) # <<>> /\ ~validateNumber(value)
  THEN "Please enter a valid number"
  ELSE NULL

(***************************************************************************)
(* parseFloat(s) of a string that matches numberRegex is finite unless the *)
(* decimal magnitude passes Number.MAX_VALUE = 1.7976931348623157e308.     *)
(***************************************************************************)
MaxValueDigits == <<1, 7, 9, 7, 6, 9, 3, 1, 3, 4, 8, 6, 2, 3, 1, 5, 7>>
MaxValueExp10 == 308

RECURSIVE DecValue(_, _, _)
\* value of the n digits of s starting at i, saturated at cap
DecValue(s, i, n) ==
  IF n = 0 THEN 0
  ELSE LET v == 10 * DecValue(s, i, n - 1) + DigitVal(s[i + n - 1])
       IN  IF v > 100000 THEN 100000 ELSE v

RECURSIVE LeadingZeros(_)
LeadingZeros(d) ==
  IF d # <<>> /\ Head(d) = 0 THEN 1 + LeadingZeros(Tail(d)) ELSE 0

RECURSIVE DigitsLeq(_, _)
\* the decimal fraction 0.d1d2... is at most 0.m1m2... (missing digits are 0)
DigitsLeq(d, m) ==
  IF d = <<>> THEN TRUE
  ELSE IF m = <<>> THEN \A k \in 1..Len(d) : d[k] = 0
  ELSE IF Head(d) < Head(m) THEN TRUE
  ELSE IF Head(d) > Head(m) THEN FALSE
  ELSE DigitsLeq(Tail(d), Tail(m))

\* isFinite(parseFloat(s)) for s matching numberRegex
parseFloatIsFinite(s) ==
  LET i0 == IF s # <<>> /\ s[1] = "-" THEN 2 ELSE 1
      n1 == DigitRun(s, i0)
      i1 == i0 + n1
      hasDot == i1 <= Len(s) /\ s[i1] = "."
      i2 == IF hasDot THEN i1 + 1 ELSE i1
      n2 == IF hasDot THEN DigitRun(s, i2) ELSE 0
      eStart == i2 + n2
      hasExp == eStart <= Len(s) /\ s[eStart] \in {"e", "E"}
      j0 == eStart + 1
      neg == j0 <= Len(s) /\ s[j0] = "-"
      j1 == IF j0 <= Len(s) /\ s[j0] \in {"+", "-"} THEN j0 + 1 ELSE j0
      ne == DigitRun(s, j1)
      expAbs == IF hasExp THEN DecValue(s, j1, ne) ELSE 0
      exp == IF neg THEN 0 - expAbs ELSE expAbs
      mant == [k \in 1..(n1 + n2) |->
                 DigitVal(IF k <= n1 THEN s[i0 + k - 1] ELSE s[i2 + k - n1 - 1])]
      z == LeadingZeros(mant)
      \* decimal exponent of the first non-zero digit
      p == n1 - 1 - z + exp
  IN  \/ z = Len(mant)                       \* the value is zero
      \/ p < MaxValueExp10
      \/ p = MaxValueExp10 /\ DigitsLeq(SubSeq(mant, z + 1, Len(mant)), MaxValueDigits)

(***************************************************************************)
(* validateCellValue of the validating cell router: the stored string, or  *)
(* a BAD_REQUEST error.                                                    *)
(***************************************************************************)
BadRequest == [ok |-> FALSE, value |-> <<>>]

validateCellValue(value, columnType) ==
  IF Trim(value) = <<>> THEN [ok |-> TRUE, value |-> <<>>]
  ELSE IF columnType = "TEXT" THEN [ok |-> TRUE, value |-> value]
  ELSE IF ~numberRegex(Trim(value)) THEN BadRequest
  ELSE IF ~parseFloatIsFinite(Trim(value)) THEN BadRequest
  ELSE [ok |-> TRUE, value |-> Trim(value)]

(***************************************************************************)
(* The database.  Ids are pairs <<kind, n>>: server ids <<"row", n>> and   *)
(* <<"col", n>>, client ids <<"temp-row-", n>>.  cuid ids compare as       *)
(* strings; the model compares their numbers.                              *)
(***************************************************************************)
RowId(n) == <<"row", n>>
ColId(n) == <<"col", n>>

Max(S) == CHOOSE x \in S : \A y \in S : y <= x

\* findFirst({orderBy: {position: "desc"}})?.position ?? -1
lastPosition(tbl) ==
  IF DOMAIN tbl = {} THEN -1 ELSE Max({tbl[k].position : k \in DOMAIN tbl})

\* f extended (or overwritten) at the keys of g
Merge(f, g) ==
  [k \in (DOMAIN f) \cup (DOMAIN g) |-> IF k \in DOMAIN g THEN g[k] ELSE f[k]]

\* f without the keys in S
Without(f, S) == [k \in (DOMAIN f) \ S |-> f[k]]

RECURSIVE SortByPosition(_, _)
\* the ids of S in ascending position order (orderBy: { position: "asc" })
SortByPosition(S, tbl) ==
  IF S = {} THEN <<>>
  ELSE LET m == CHOOSE x \in S : \A y \in S : tbl[x].position <= tbl[y].position
       IN  <<m>> \o SortByPosition(S \ {m}, tbl)

(***************************************************************************)
(* rowRouter.getByTableIdInfinite: rows with id > cursor, by position,     *)
(* limit + 1 of them; the extra one is popped and names the next cursor.   *)
(***************************************************************************)
getByTableIdInfinite(rows, cursor, limit) ==
  LET matching == {id \in DOMAIN rows : cursor = NoId \/ id[2] > cursor[2]}
      sorted == SortByPosition(matching, rows)
      taken == SubSeq(sorted, 1, IF Len(sorted) < limit + 1 THEN Len(sorted) ELSE limit + 1)
  IN  IF Len(taken) > limit
      THEN [items |-> SubSeq(taken, 1, limit), nextCursor |-> taken[limit + 1]]
      ELSE [items |-> taken, nextCursor |-> NoId]

(***************************************************************************)
(* SpecPage: a table is read page by page, each call taking the cursor the *)
(* previous response named (getNextPageParam: lastPage.nextCursor).        *)
(***************************************************************************)
MaxPageRows == 4
MaxLimit == 2
DefaultLimit == 50

Bijections(S, T) ==
  {f \in [S -> T] : \A a, b \in S : a # b => f[a] # f[b]}

\* tables of n rows with positions 0..n-1, in every relation to the ids
TablesOf(n) ==
  {[id \in {RowId(k) : k \in 1..n} |-> [position |-> f[id[2]]]] :
      f \in Bijections(1..n, 0..(n - 1))}

\* the table of the pagination scenario: 51 rows created one after another
FiftyOneRows == [id \in {RowId(k) : k \in 1..(DefaultLimit + 1)} |-> [position |-> id[2] - 1]]

PageInit ==
  /\ ValOff /\ SrvOff /\ CliOff /\ ApiOff /\ GridOff
  /\ dbColumns = <<>> /\ dbCells = <<>> /\ nextColId = 1
  /\ \/ \E n \in 0..MaxPageRows :
          /\ dbRows \in TablesOf(n)
          /\ nextRowId = n + 1
          /\ pgLimit \in 1..MaxLimit
     \/ /\ dbRows = FiftyOneRows
        /\ nextRowId = DefaultLimit + 2
        /\ pgLimit = DefaultLimit
  /\ pgCursor = NoId
  /\ pgPages = <<>>
  /\ pgPhase = "first"

\* one call of listRowsPage with the current cursor
FetchPage ==
  /\ pgPhase \in {"first", "more"}
  /\ LET page == getByTableIdInfinite(dbRows, pgCursor, pgLimit)
     IN  /\ pgPages' = Append(pgPages, page)
         /\ pgCursor' = page.nextCursor
         /\ pgPhase' = IF page.nextCursor = NoId THEN "done" ELSE "more"
  /\ UNCHANGED <<pgLimit, valVars, gridVars, apiVars, dbVars, srvVars, cliVars>>

PageNext == FetchPage

SpecPage == PageInit /\ [][PageNext]_vars

(***************************************************************************)
(* SpecServer: rowRouter.create and columnRouter.create of table.ts, one   *)
(* awaited database statement per step, any number of requests at once.    *)
(***************************************************************************)
MaxReqs == 3

ColumnTypes == {"TEXT", "NUMBER"}

NoReq == [kind |-> "none", pc |-> "none", lastPos |-> -1, newId |-> NoId, found |-> {}]

SrvInit ==
  /\ ValOff /\ PageOff /\ CliOff /\ ApiOff /\ GridOff
  /\ DbEmpty
  /\ srvReqs = <<>>

Finished(q) == q.pc \in {"done", "failed"}

\* a createRow or createColumn request arrives; its first statement after the
\* ownership check reads the last position
StartRequest(kind) ==
  /\ Len(srvReqs) < MaxReqs
  /\ srvReqs' = Append(srvReqs,
        [NoReq EXCEPT !.kind = kind, !.pc = "create",
           !.lastPos = IF kind = "row" THEN lastPosition(dbRows) ELSE lastPosition(dbColumns)])
  /\ UNCHANGED <<dbVars, valVars, gridVars, apiVars, pageVars, cliVars>>

StartCreateRow ==
  /\ StartRequest("row")

StartCreateColumn ==
  /\ StartRequest("col")

\* ctx.db.row.create({ position: (lastRow?.position ?? -1) + 1 })
RowCreateStep(i) ==
  /\ srvReqs[i].kind = "row" /\ srvReqs[i].pc = "create"
  /\ dbRows' = Merge(dbRows, RowId(nextRowId) :> [position |-> srvReqs[i].lastPos + 1])
  /\ nextRowId' = nextRowId + 1
  /\ srvReqs' = [srvReqs EXCEPT ![i].newId = RowId(nextRowId), ![i].pc = "find"]
  /\ UNCHANGED <<dbColumns, dbCells, nextColId, valVars, gridVars, apiVars, pageVars, cliVars>>

\* ctx.db.column.create({ position: (lastColumn?.position ?? -1) + 1 })
ColumnCreateStep(i) ==
  /\ srvReqs[i].kind = "col" /\ srvReqs[i].pc = "create"
  /\ \E type \in ColumnTypes :
       dbColumns' = Merge(dbColumns,
          ColId(nextColId) :> [type |-> type, position |-> srvReqs[i].lastPos + 1])
  /\ nextColId' = nextColId + 1
  /\ srvReqs' = [srvReqs EXCEPT ![i].newId = ColId(nextColId), ![i].pc = "find"]
  /\ UNCHANGED <<dbRows, dbCells, nextRowId, valVars, gridVars, apiVars, pageVars, cliVars>>

\* ctx.db.column.findMany / ctx.db.row.findMany: the other side of the new cells
FindManyStep(i) ==
  /\ srvReqs[i].pc = "find"
  /\ srvReqs' = [srvReqs EXCEPT
        ![i].found = IF srvReqs[i].kind = "row" THEN DOMAIN dbColumns ELSE DOMAIN dbRows,
        ![i].pc = "cells"]
  /\ UNCHANGED <<dbVars, valVars, gridVars, apiVars, pageVars, cliVars>>

\* the (rowId, columnId) pairs the request inserts
NewCells(q) ==
  IF q.kind = "row" THEN {<<q.newId, c>> : c \in q.found}
                    ELSE {<<r, q.newId>> : r \in q.found}

\* ctx.db.cell.createMany: one INSERT; it inserts every pair, or, when a pair
\* exists already, none and the request throws (unique constraint)
CreateManyStep(i) ==
  /\ srvReqs[i].pc = "cells"
  /\ IF NewCells(srvReqs[i]) \cap DOMAIN dbCells # {}
     THEN /\ srvReqs' = [srvReqs EXCEPT ![i].pc = "failed"]
          /\ UNCHANGED dbCells
     ELSE /\ dbCells' = Merge(dbCells, [k \in NewCells(srvReqs[i]) |-> <<>>])
          /\ srvReqs' = [srvReqs EXCEPT ![i].pc = "done"]
  /\ UNCHANGED <<dbRows, dbColumns, nextRowId, nextColId, valVars, gridVars, apiVars, pageVars, cliVars>>

RowCreate == \E i \in 1..Len(srvReqs) : RowCreateStep(i)
ColumnCreate == \E i \in 1..Len(srvReqs) : ColumnCreateStep(i)
FindMany == \E i \in 1..Len(srvReqs) : FindManyStep(i)
CreateMany == \E i \in 1..Len(srvReqs) : CreateManyStep(i)

SrvNext ==
  \/ StartCreateRow
  \/ StartCreateColumn
  \/ RowCreate
  \/ ColumnCreate
  \/ FindMany
  \/ CreateMany

SpecServer == SrvInit /\ [][SrvNext]_vars

(***************************************************************************)
(* SpecApi: the routers, one request after another.  Two users own one     *)
(* base each; a request names its caller (ctx.session.user.id) and its     *)
(* input.  Ids are drawn from one counter (cuid() never repeats).          *)
(***************************************************************************)
\* requests that write: MaxCalls of them where a new table is empty,
\* MaxSkeletonCalls where a new table holds the fifteen records of the skeleton
MaxCalls == 5
MaxSkeletonCalls == 2

Users == {"u1", "u2"}
BaseId(n) == <<"base", n>>
TableId(n) == <<"table", n>>
CellId(n) == <<"cell", n>>
BaseIds == {BaseId(1), BaseId(2)}

\* the files that define the routers (table2.ts answers a single request as
\* table.ts does)
Variants == {"table.ts", "part_001", "part_002"}

\* tableRouter.create provisions the default columns, rows and cells
provisionsSkeleton(variant) == variant \in {"part_001", "part_002"}

\* cellRouter.update validates the value against the column's type
validatesCells(variant) == variant = "part_001"

callBudget(variant) ==
  IF provisionsSkeleton(variant) THEN MaxSkeletonCalls ELSE MaxCalls

notApi == <<valVars, dbVars, pageVars, srvVars, cliVars, gridVars>>

\* the values a cell is written with: empty, a number after a blank, not a
\* number
ApiValues == {<<>>, <<" ", "7">>, <<"x">>}

\* faker.number.int({ min: 18, max: 80 }).toString() for the three rows:
\* two of the draws
FakerAges == {<<<<"1", "8">>, <<"8", "0">>, <<"1", "8">>>>,
              <<<<"8", "0">>, <<"4", "2">>, <<"8", "0">>>>}
\* faker.person.fullName() and faker.internet.email(): one value of each
FakerName == <<"A", "b">>
FakerEmail == <<"a", "@", "b">>

\* table.base.userId of a table found with include: { base: true }
baseUserId(tableId) == apiBases[apiTables[tableId].baseId].userId

\* the user a base, table, row or column belongs to
ownerOfBase(baseId) ==
  IF baseId \in DOMAIN apiBases THEN apiBases[baseId].userId ELSE "nobody"
ownerOfTable(tableId) ==
  IF tableId \in DOMAIN apiTables THEN baseUserId(tableId) ELSE "nobody"
ownerOfRow(rowId) ==
  IF rowId \in DOMAIN apiRows THEN ownerOfTable(apiRows[rowId].tableId) ELSE "nobody"
ownerOfColumn(columnId) ==
  IF columnId \in DOMAIN apiColumns THEN ownerOfTable(apiColumns[columnId].tableId)
  ELSE "nobody"

\* !table || table.base.userId !== ctx.session.user.id
tableForbidden(tableId, user) ==
  tableId \notin DOMAIN apiTables \/ baseUserId(tableId) # user

\* !row || row.table.base.userId !== ctx.session.user.id
rowForbidden(rowId, user) ==
  rowId \notin DOMAIN apiRows \/ baseUserId(apiRows[rowId].tableId) # user

\* !column || column.table.base.userId !== ctx.session.user.id
columnForbidden(columnId, user) ==
  columnId \notin DOMAIN apiColumns \/ baseUserId(apiColumns[columnId].tableId) # user

\* findMany({ where: { tableId } }) of columns and of rows
columnsOf(tableId) == {c \in DOMAIN apiColumns : apiColumns[c].tableId = tableId}
rowsOf(tableId) == {r \in DOMAIN apiRows : apiRows[r].tableId = tableId}

\* the request just served: the procedure, the caller, the input, the owner
\* of what the input names, the outcome, and for a cell write whether the
\* request before it was the same write
Served(op, caller, input, owner, outcome) ==
  apiLast' = [op |-> op, caller |-> caller, input |-> input, owner |-> owner,
              outcome |-> outcome,
              repeat |-> op = "cell.update" /\ apiLast.op = op
                           /\ apiLast.caller = caller /\ apiLast.input = input]

\* delete with onDelete: Cascade: the tables T, the columns C and the rows R
\* go, and with them what refers to them
deleteCascade(T, C, R) ==
  LET goneColumns == C \cup {c \in DOMAIN apiColumns : apiColumns[c].tableId \in T}
      goneRows == R \cup {r \in DOMAIN apiRows : apiRows[r].tableId \in T}
  IN  /\ apiTables' = Without(apiTables, T)
      /\ apiColumns' = Without(apiColumns, goneColumns)
      /\ apiRows' = Without(apiRows, goneRows)
      /\ apiCells' = {x \in apiCells : x.rowId \notin goneRows /\ x.columnId \notin goneColumns}
      /\ apiGone' = apiGone
           \cup {[kind |-> "column", tableId |-> apiColumns[c].tableId,
                  position |-> apiColumns[c].position] : c \in goneColumns}
           \cup {[kind |-> "row", tableId |-> apiRows[r].tableId,
                  position |-> apiRows[r].position] : r \in goneRows}

\* a reading request changes nothing but the answer
ReadOnly == UNCHANGED <<apiVariant, apiDb, apiNext, apiTx, apiCalls, apiGone, notApi>>

(***************************************************************************)
(* tableRouter                                                             *)
(***************************************************************************)
\* create: the table alone, or the start of the $transaction that
\* provisions the skeleton
tableCreate(user, baseId) ==
  /\ apiTx.pc = "idle"
  /\ apiCalls < callBudget(apiVariant)
  /\ IF provisionsSkeleton(apiVariant)
     THEN /\ apiTx' = [pc |-> "table", caller |-> user, baseId |-> baseId,
                       tableId |-> NoId, saved |-> apiDb]
          /\ apiCalls' = apiCalls + 1
          /\ UNCHANGED <<apiTables, apiNext, apiLast>>
     ELSE /\ IF baseId \in DOMAIN apiBases
             THEN /\ apiTables' = Merge(apiTables, TableId(apiNext) :> [baseId |-> baseId])
                  /\ apiNext' = apiNext + 1
                  /\ apiCalls' = apiCalls + 1
                  /\ Served("table.create", user, <<baseId>>, ownerOfBase(baseId), "ok")
             ELSE /\ Served("table.create", user, <<baseId>>, "nobody", "error")
                  /\ UNCHANGED <<apiTables, apiNext, apiCalls>>
          /\ UNCHANGED apiTx
  /\ UNCHANGED <<apiVariant, apiBases, apiColumns, apiRows, apiCells, apiGone, notApi>>

\* the columns, rows and cells of the skeleton
skeletonColumns(tableId, n) ==
  (ColId(n) :> [tableId |-> tableId, name |-> "Name", type |-> "TEXT", position |-> 0])
  @@ (ColId(n + 1) :> [tableId |-> tableId, name |-> "Age", type |-> "NUMBER", position |-> 1])
  @@ (ColId(n + 2) :> [tableId |-> tableId, name |-> "Email", type |-> "TEXT", position |-> 2])

skeletonRows(tableId, n) ==
  [r \in {RowId(n), RowId(n + 1), RowId(n + 2)} |->
     [tableId |-> tableId, position |-> r[2] - n]]

\* cellsData: one cell for each created row and created column, its value
\* chosen by the column's name
skeletonCells(createdRows, createdColumns, ages, n) ==
  { [id |-> CellId(n + (rowIndex - 1) * Len(createdColumns) + (colIndex - 1)),
     rowId |-> createdRows[rowIndex],
     columnId |-> createdColumns[colIndex],
     value |-> LET column == apiColumns[createdColumns[colIndex]]
               IN  CASE column.name = "Name" -> FakerName
                     [] column.name = "Age" -> ages[rowIndex]
                     [] column.name = "Email" -> FakerEmail
                     [] OTHER -> IF column.type = "NUMBER" THEN <<"1">> ELSE <<"w">>] :
    rowIndex \in 1..Len(createdRows), colIndex \in 1..Len(createdColumns) }

\* one statement of the $transaction
createTableStep ==
  /\ apiTx.pc # "idle"
  /\ CASE apiTx.pc = "table" ->
            /\ apiTx.baseId \in DOMAIN apiBases
            /\ apiTables' = Merge(apiTables, TableId(apiNext) :> [baseId |-> apiTx.baseId])
            /\ apiNext' = apiNext + 1
            /\ apiTx' = [apiTx EXCEPT !.pc = "columns", !.tableId = TableId(apiNext)]
            /\ UNCHANGED <<apiColumns, apiRows, apiCells, apiLast, apiCalls>>
       [] apiTx.pc = "columns" ->
            /\ apiColumns' = Merge(apiColumns, skeletonColumns(apiTx.tableId, apiNext))
            /\ apiNext' = apiNext + 3
            /\ apiTx' = [apiTx EXCEPT !.pc = "rows"]
            /\ UNCHANGED <<apiTables, apiRows, apiCells, apiLast, apiCalls>>
       [] apiTx.pc = "rows" ->
            /\ apiRows' = Merge(apiRows, skeletonRows(apiTx.tableId, apiNext))
            /\ apiNext' = apiNext + 3
            /\ apiTx' = [apiTx EXCEPT !.pc = "cells"]
            /\ UNCHANGED <<apiTables, apiColumns, apiCells, apiLast, apiCalls>>
       [] apiTx.pc = "cells" ->
            /\ \E ages \in FakerAges :
                 LET createdColumns == SortByPosition(columnsOf(apiTx.tableId), apiColumns)
                     createdRows == SortByPosition(rowsOf(apiTx.tableId), apiRows)
                 IN  apiCells' = apiCells
                       \cup skeletonCells(createdRows, createdColumns, ages, apiNext)
            /\ apiNext' = apiNext + 9
            /\ apiTx' = NoTx
            /\ Served("table.create", apiTx.caller, <<apiTx.baseId>>, ownerOfBase(apiTx.baseId), "ok")
            /\ UNCHANGED <<apiTables, apiColumns, apiRows, apiCalls>>
  /\ UNCHANGED <<apiVariant, apiBases, apiGone, notApi>>

\* what the database holds after the $transaction has thrown: its state
\* when the transaction began
rollbackKeep(tx) == apiDb
rollback(tx) == tx.saved

\* a statement of the $transaction throws (the base is gone, the timeout
\* has passed, the connection is lost): the transaction is rolled back
createTableFail ==
  /\ apiTx.pc # "idle"
  /\ apiBases' = rollback(apiTx)[1]
  /\ apiTables' = rollback(apiTx)[2]
  /\ apiColumns' = rollback(apiTx)[3]
  /\ apiRows' = rollback(apiTx)[4]
  /\ apiCells' = rollback(apiTx)[5]
  /\ apiTx' = NoTx
  /\ Served("table.create", apiTx.caller, <<apiTx.baseId>>, ownerOfBase(apiTx.baseId), "error")
  /\ UNCHANGED <<apiVariant, apiNext, apiCalls, apiGone, notApi>>

\* getAllByBase and getById: no check of the caller
tableGetAllByBase(user, baseId) ==
  /\ apiTx.pc = "idle"
  /\ Served("table.getAllByBase", user, <<baseId>>, ownerOfBase(baseId), "ok")
  /\ ReadOnly

tableGetById(user, tableId) ==
  /\ apiTx.pc = "idle"
  /\ Served("table.getById", user, <<tableId>>, ownerOfTable(tableId), "ok")
  /\ ReadOnly

\* delete: no check of the caller either
tableDelete(user, tableId) ==
  /\ apiTx.pc = "idle"
  /\ apiCalls < callBudget(apiVariant)
  /\ tableId \in DOMAIN apiTables
  /\ deleteCascade({tableId}, {}, {})
  /\ apiCalls' = apiCalls + 1
  /\ Served("table.delete", user, <<tableId>>, ownerOfTable(tableId), "ok")
  /\ UNCHANGED <<apiVariant, apiBases, apiNext, apiTx, notApi>>

(***************************************************************************)
(* columnRouter                                                            *)
(***************************************************************************)
\* cell.createMany: an empty cell for each of the rows and columns
emptyCells(rowIds, columnIds, n) ==
  { [id |-> CellId(n + (i - 1) * Len(columnIds) + (j - 1)),
     rowId |-> rowIds[i], columnId |-> columnIds[j], value |-> <<>>] :
    i \in 1..Len(rowIds), j \in 1..Len(columnIds) }

\* (lastColumn?.position ?? -1) + 1, lastColumn the column of the table
\* with the greatest position
nextPositionZero(tbl, ids) == 0
nextPositionCount(tbl, ids) == Cardinality(ids)
nextPosition(tbl, ids) ==
  IF ids = {} THEN 0 ELSE Max({tbl[k].position : k \in ids}) + 1

columnGetByTableId(user, tableId) ==
  /\ apiTx.pc = "idle"
  /\ Served("column.getByTableId", user, <<tableId>>, ownerOfTable(tableId),
            IF tableForbidden(tableId, user) THEN "FORBIDDEN" ELSE "ok")
  /\ ReadOnly

columnCreate(user, tableId, type) ==
  /\ apiTx.pc = "idle"
  /\ apiCalls < callBudget(apiVariant)
  /\ IF tableForbidden(tableId, user)
     THEN /\ Served("column.create", user, <<tableId, type>>, ownerOfTable(tableId), "FORBIDDEN")
          /\ UNCHANGED <<apiColumns, apiCells, apiNext, apiCalls>>
     ELSE LET newColumn == ColId(apiNext)
              existingRows == SortByPosition(rowsOf(tableId), apiRows)
          IN  /\ apiColumns' = Merge(apiColumns, newColumn :>
                     [tableId |-> tableId, name |-> "Column", type |-> type,
                      position |-> nextPosition(apiColumns, columnsOf(tableId))])
              /\ apiCells' = apiCells \cup emptyCells(existingRows, <<newColumn>>, apiNext + 1)
              /\ apiNext' = apiNext + 1 + Len(existingRows)
              /\ apiCalls' = apiCalls + 1
              /\ Served("column.create", user, <<tableId, type>>, ownerOfTable(tableId), "ok")
  /\ UNCHANGED <<apiVariant, apiBases, apiTables, apiRows, apiTx, apiGone, notApi>>

columnDelete(user, columnId) ==
  /\ apiTx.pc = "idle"
  /\ apiCalls < callBudget(apiVariant)
  /\ IF columnForbidden(columnId, user)
     THEN /\ Served("column.delete", user, <<columnId>>, ownerOfColumn(columnId), "FORBIDDEN")
          /\ UNCHANGED <<apiTables, apiColumns, apiRows, apiCells, apiCalls, apiGone>>
     ELSE /\ deleteCascade({}, {columnId}, {})
          /\ apiCalls' = apiCalls + 1
          /\ Served("column.delete", user, <<columnId>>, ownerOfColumn(columnId), "ok")
  /\ UNCHANGED <<apiVariant, apiBases, apiNext, apiTx, notApi>>

(***************************************************************************)
(* rowRouter                                                               *)
(***************************************************************************)
\* getByTableId and getByTableIdInfinite
rowGetByTableId(user, tableId) ==
  /\ apiTx.pc = "idle"
  /\ Served("row.getByTableId", user, <<tableId>>, ownerOfTable(tableId),
            IF tableForbidden(tableId, user) THEN "FORBIDDEN" ELSE "ok")
  /\ ReadOnly

rowCreate(user, tableId) ==
  /\ apiTx.pc = "idle"
  /\ apiCalls < callBudget(apiVariant)
  /\ IF tableForbidden(tableId, user)
     THEN /\ Served("row.create", user, <<tableId>>, ownerOfTable(tableId), "FORBIDDEN")
          /\ UNCHANGED <<apiRows, apiCells, apiNext, apiCalls>>
     ELSE LET newRow == RowId(apiNext)
              columns == SortByPosition(columnsOf(tableId), apiColumns)
          IN  /\ apiRows' = Merge(apiRows, newRow :>
                     [tableId |-> tableId,
                      position |-> nextPosition(apiRows, rowsOf(tableId))])
              /\ apiCells' = apiCells \cup emptyCells(<<newRow>>, columns, apiNext + 1)
              /\ apiNext' = apiNext + 1 + Len(columns)
              /\ apiCalls' = apiCalls + 1
              /\ Served("row.create", user, <<tableId>>, ownerOfTable(tableId), "ok")
  /\ UNCHANGED <<apiVariant, apiBases, apiTables, apiColumns, apiTx, apiGone, notApi>>

rowDelete(user, rowId) ==
  /\ apiTx.pc = "idle"
  /\ apiCalls < callBudget(apiVariant)
  /\ IF rowForbidden(rowId, user)
     THEN /\ Served("row.delete", user, <<rowId>>, ownerOfRow(rowId), "FORBIDDEN")
          /\ UNCHANGED <<apiTables, apiColumns, apiRows, apiCells, apiCalls, apiGone>>
     ELSE /\ deleteCascade({}, {}, {rowId})
          /\ apiCalls' = apiCalls + 1
          /\ Served("row.delete", user, <<rowId>>, ownerOfRow(rowId), "ok")
  /\ UNCHANGED <<apiVariant, apiBases, apiNext, apiTx, notApi>>

(***************************************************************************)
(* cellRouter.update                                                       *)
(***************************************************************************)
\* an upsert that creates a record whether or not the pair has one
upsertCreate(cells, rowId, columnId, value, n) ==
  cells \cup {[id |-> CellId(n), rowId |-> rowId, columnId |-> columnId, value |-> value]}

\* cell.upsert({ where: { rowId_columnId }, update: { value }, create })
upsert(cells, rowId, columnId, value, n) ==
  IF \E x \in cells : x.rowId = rowId /\ x.columnId = columnId
  THEN {IF x.rowId = rowId /\ x.columnId = columnId THEN [x EXCEPT !.value = value] ELSE x :
        x \in cells}
  ELSE cells \cup {[id |-> CellId(n), rowId |-> rowId, columnId |-> columnId,
                    value |-> value]}

\* the value cellRouter.update stores: the input, or in the validating file
\* what validateCellValue returns (ok = FALSE: it throws BAD_REQUEST)
storedValueUnchecked(variant, value, columnType) == [ok |-> TRUE, value |-> value]
storedValue(variant, value, columnType) ==
  IF validatesCells(variant) THEN validateCellValue(value, columnType)
  ELSE [ok |-> TRUE, value |-> value]

cellUpdate(user, rowId, columnId, value) ==
  /\ apiTx.pc = "idle"
  /\ apiCalls < callBudget(apiVariant)
  /\ LET validated == storedValue(apiVariant, value, apiColumns[columnId].type)
         outcome == IF rowForbidden(rowId, user) THEN "FORBIDDEN"
                    ELSE IF validatesCells(apiVariant) /\ columnId \notin DOMAIN apiColumns
                         THEN "NOT_FOUND"
                    ELSE IF ~validated.ok THEN "BAD_REQUEST"
                    ELSE "ok"
     IN  /\ Served("cell.update", user, <<rowId, columnId, value>>, ownerOfRow(rowId), outcome)
         /\ IF outcome = "ok"
            THEN /\ apiCells' = upsert(apiCells, rowId, columnId, validated.value, apiNext)
                 /\ apiNext' = apiNext + 1
                 /\ apiCalls' = apiCalls + 1
            ELSE UNCHANGED <<apiCells, apiNext, apiCalls>>
  /\ UNCHANGED <<apiVariant, apiBases, apiTables, apiColumns, apiRows, apiTx, apiGone, notApi>>

(***************************************************************************)
(* baseRouter                                                              *)
(***************************************************************************)
\* getById: no check of the caller
baseGetById(user, baseId) ==
  /\ apiTx.pc = "idle"
  /\ Served("base.getById", user, <<baseId>>, ownerOfBase(baseId), "ok")
  /\ ReadOnly

\* deleteBase: !base || base.userId !== userId throws a plain Error
deleteBase(user, baseId) ==
  /\ apiTx.pc = "idle"
  /\ apiCalls < callBudget(apiVariant)
  /\ IF baseId \notin DOMAIN apiBases \/ apiBases[baseId].userId # user
     THEN /\ Served("base.deleteBase", user, <<baseId>>, ownerOfBase(baseId), "error")
          /\ UNCHANGED <<apiDb, apiCalls, apiGone>>
     ELSE /\ apiBases' = Without(apiBases, {baseId})
          /\ deleteCascade({t \in DOMAIN apiTables : apiTables[t].baseId = baseId}, {}, {})
          /\ apiCalls' = apiCalls + 1
          /\ Served("base.deleteBase", user, <<baseId>>, ownerOfBase(baseId), "ok")
  /\ UNCHANGED <<apiVariant, apiNext, apiTx, notApi>>

ApiInit ==
  /\ ValOff /\ PageOff /\ SrvOff /\ CliOff /\ DbEmpty /\ GridOff
  /\ apiVariant \in Variants
  /\ apiBases = (BaseId(1) :> [userId |-> "u1"]) @@ (BaseId(2) :> [userId |-> "u2"])
  /\ apiTables = <<>>
  /\ apiColumns = <<>>
  /\ apiRows = <<>>
  /\ apiCells = {}
  /\ apiNext = 1
  /\ apiTx = NoTx
  /\ apiLast = NoCall
  /\ apiCalls = 0
  /\ apiGone = {}

ApiNext ==
  \/ \E u \in Users, b \in BaseIds : tableCreate(u, b)
  \/ createTableStep
  \/ createTableFail
  \/ \E u \in Users, b \in BaseIds : tableGetAllByBase(u, b)
  \/ \E u \in Users, t \in DOMAIN apiTables : tableGetById(u, t)
  \/ \E u \in Users, t \in DOMAIN apiTables : tableDelete(u, t)
  \/ \E u \in Users, t \in DOMAIN apiTables : columnGetByTableId(u, t)
  \/ \E u \in Users, t \in DOMAIN apiTables, ty \in {"TEXT", "NUMBER"} : columnCreate(u, t, ty)
  \/ \E u \in Users, c \in DOMAIN apiColumns : columnDelete(u, c)
  \/ \E u \in Users, t \in DOMAIN apiTables : rowGetByTableId(u, t)
  \/ \E u \in Users, t \in DOMAIN apiTables : rowCreate(u, t)
  \/ \E u \in Users, r \in DOMAIN apiRows : rowDelete(u, r)
  \/ \E u \in Users, r \in DOMAIN apiRows, c \in DOMAIN apiColumns, v \in ApiValues :
       cellUpdate(u, r, c, v)
  \/ \E u \in Users, b \in BaseIds : baseGetById(u, b)
  \/ \E u \in Users, b \in BaseIds : deleteBase(u, b)

SpecApi == ApiInit /\ [][ApiNext]_vars

(***************************************************************************)
(* SpecValidate: one input string, validated by both sides.                *)
(***************************************************************************)
MaxLen == 5

\* the characters the enumerated inputs are built from
Alphabet == {"1", "9", ".", "-", "+", "e", "a", " "}

RECURSIVE StringsUpTo(_)
StringsUpTo(n) ==
  IF n = 0 THEN {<<>>}
  ELSE LET shorter == StringsUpTo(n - 1)
       IN  shorter \cup {Append(s, ch) : s \in {t \in shorter : Len(t) = n - 1}, ch \in Alphabet}

\* the inputs the specification names
ExampleInputs ==
  { <<"1", "2", "3">>, <<"-", "4", "5", ".", "6", "7">>, <<"1", ".", "2", "e", "-", "3">>,
    <<>>, <<"1", "2", "a">>, <<"1", ".", ".", "2">>, <<"-", "-", "5">>,
    <<"1", "e", "3", "0", "8">>, <<"2", "e", "3", "0", "8">>, <<"0", "e", "9", "9", "9">>,
    <<" ", "5", ".", " ">>, <<".">>, <<"1", "E", "+", "2">> }

ValInit ==
  /\ DbEmpty /\ PageOff /\ SrvOff /\ CliOff /\ ApiOff /\ GridOff
  /\ vInput \in StringsUpTo(MaxLen) \cup ExampleInputs
  /\ vClient = NULL
  /\ vServer = NULL
  /\ vPhase = "input"

\* the cell editor hands the string to getValidationError, the router to validateCellValue
Validate ==
  /\ vPhase = "input"
  /\ vClient' = (getValidationError(vInput, "NUMBER") = NULL)
  /\ vServer' = validateCellValue(vInput, "NUMBER").ok
  /\ vPhase' = "done"
  /\ UNCHANGED <<vInput, dbVars, pageVars, srvVars, apiVars, cliVars, gridVars>>

ValNext == Validate

SpecValidate == ValInit /\ [][ValNext]_vars

(***************************************************************************)
(* Spec: the table view.  Time is counted in units of 30000 ms, rounded up: *)
(* the reaper interval of 15000 ms and the inactivity threshold of 30000   *)
(* ms both take one unit.  The comparisons keep their strictness, so a     *)
(* tick one unit after the last change retires nothing and a tick two      *)
(* units after it does.  Date.now() at mount is far beyond the threshold.  *)
(* The page size of 50 is scaled to 1.                                     *)
(***************************************************************************)
ReapInterval == 1
ReapThreshold == 1
PageLimit == 1
TempPosition == 999

MaxOps == 3
MaxAdds == 1
MaxRapidAdds == 2
TimeSpan == 2

StartTime == ReapThreshold + 1
MaxTime == StartTime + TimeSpan

\* Date.now(): a reading is never earlier than the reading before it
Clock == now..MaxTime

\* the strings a user enters: a blank, a word, a number
Values == {<<" ">>, <<"a">>, <<"1">>}

\* `temp-row-${Date.now()}`: Date.now() counts milliseconds, far finer than
\* the unit of the clock above, and the add-row button stays disabled until
\* the create before it has resolved, so the reading of an add differs from
\* the readings of the adds before it: the id carries the rank of the add
TempId(n) == <<"temp-row-", n>>

\* rowId.startsWith('temp-row-')
IsTemp(id) == id[1] = "temp-row-"

\* the column list of the view (column.getByTableId, kept for the session)
columns == SortByPosition(DOMAIN dbColumns, dbColumns)

\* a row as the server returns it: include: { cells: ... }
RowWithCells(id) ==
  [id |-> id,
   position |-> dbRows[id].position,
   cells |-> [c \in {c \in DOMAIN dbColumns : <<id, c>> \in DOMAIN dbCells} |-> dbCells[<<id, c>>]]]

RECURSIVE FlatItems(_)
FlatItems(pages) ==
  IF pages = <<>> THEN <<>> ELSE Head(pages).items \o FlatItems(Tail(pages))

\* infiniteRowData.pages.flatMap(page => page.items)
allRows == FlatItems(infiniteRowData)

hasNextPage == infiniteRowData # <<>> /\ infiniteRowData[Len(infiniteRowData)].nextCursor # NoId

\* a view that never reports a page request in flight
neverFetchingNextPage == FALSE

isFetchingNextPage == pageFetch.stage # "idle"

\* obj[a]?.[b] || ""
ValueOr(obj, a, b) ==
  IF a \in DOMAIN obj /\ b \in DOMAIN obj[a] THEN obj[a][b] ELSE <<>>

\* Object.keys(tempToRealMapping).find(tempId => tempToRealMapping[tempId] === rowId)
linkedTempRowOf(rowId) ==
  LET ts == {t \in DOMAIN tempToRealMapping : tempToRealMapping[t] = rowId}
  IN  IF ts = {} THEN NoId ELSE CHOOSE t \in ts : \A u \in ts : t[2] <= u[2]

RECURSIVE SeqOfTemps(_)
\* Object.keys of a map keyed by temp row ids (ids grow with the adds)
SeqOfTemps(S) ==
  IF S = {} THEN <<>>
  ELSE LET m == CHOOSE t \in S : \A u \in S : t[2] <= u[2]
       IN  <<m>> \o SeqOfTemps(S \ {m})

RECURSIVE InsertByPosition(_, _)
InsertByPosition(sorted, x) ==
  IF sorted = <<>> THEN <<x>>
  ELSE IF sorted[Len(sorted)].position <= x.position THEN Append(sorted, x)
  ELSE Append(InsertByPosition(SubSeq(sorted, 1, Len(sorted) - 1), x), sorted[Len(sorted)])

RECURSIVE SortRows(_)
\* [...].sort((a, b) => a.position - b.position): stable
SortRows(q) ==
  IF q = <<>> THEN <<>>
  ELSE InsertByPosition(SortRows(SubSeq(q, 1, Len(q) - 1)), q[Len(q)])

\* serverData.find(r => r.id === id)
HasRow(serverData, id) == \E k \in 1..Len(serverData) : serverData[k].id = id

FindRow(serverData, id) ==
  LET ks == {k \in 1..Len(serverData) : serverData[k].id = id}
  IN  serverData[CHOOSE k \in ks : \A j \in ks : k <= j]

\* serverData.filter(...): a confirmed row is dropped while a temp row that
\* still has an entry in tempCellValues is mapped to it
filteredServerDataKeepAll(serverData) == serverData

filteredServerData(serverData) ==
  SelectSeq(serverData,
     LAMBDA row : ~(/\ linkedTempRowOf(row.id) # NoId
                    /\ linkedTempRowOf(row.id) \in DOMAIN tempCellValues))

\* the row rendered for one entry of tempCellValues
tempRowServerValue(serverData, tempRowId) ==
  LET realRowId == IF tempRowId \in DOMAIN tempToRealMapping
                   THEN tempToRealMapping[tempRowId] ELSE NoId
      realRow == FindRow(serverData, realRowId)
  IN  IF realRowId # NoId /\ HasRow(serverData, realRowId)
      THEN [id |-> tempRowId, position |-> realRow.position, cells |-> realRow.cells]
      ELSE [id |-> tempRowId, position |-> TempPosition,
            cells |-> [c \in DOMAIN dbColumns |-> ValueOr(tempCellValues, tempRowId, c)]]

tempRow(serverData, tempRowId) ==
  LET realRowId == IF tempRowId \in DOMAIN tempToRealMapping
                   THEN tempToRealMapping[tempRowId] ELSE NoId
      realRow == FindRow(serverData, realRowId)
  IN  IF realRowId # NoId /\ HasRow(serverData, realRowId)
      THEN [id |-> tempRowId, position |-> realRow.position,
            cells |-> [c \in DOMAIN realRow.cells |-> ValueOr(tempCellValues, tempRowId, c)]]
      ELSE [id |-> tempRowId, position |-> TempPosition,
            cells |-> [c \in DOMAIN dbColumns |-> ValueOr(tempCellValues, tempRowId, c)]]

\* a confirmed row with the ledger's values laid over its cells
mergedRowIgnoreLedger(row) == row

mergedRow(row) ==
  IF row.id \notin DOMAIN pendingChanges THEN row
  ELSE [row EXCEPT !.cells =
          [c \in DOMAIN row.cells |->
             IF c \in DOMAIN pendingChanges[row.id]
             THEN pendingChanges[row.id][c].value ELSE row.cells[c]]]

smartDataSelect(serverData) ==
  LET temps == SeqOfTemps(DOMAIN tempCellValues)
      kept == filteredServerData(serverData)
      tempRows == [i \in 1..Len(temps) |-> tempRow(serverData, temps[i])]
      mergedServerData == [i \in 1..Len(kept) |-> mergedRow(kept[i])]
  IN  SortRows(mergedServerData \o tempRows)

\* tableData; without a search query filteredTableData is the same list
tableData == smartDataSelect(allRows)

\* DataGrid: the string a cell shows
cellValue(row, columnId) ==
  IF IsTemp(row.id) THEN ValueOr(tempCellValues, row.id, columnId)
  ELSE IF row.id \in DOMAIN pendingChanges /\ columnId \in DOMAIN pendingChanges[row.id]
  THEN pendingChanges[row.id][columnId].value
  ELSE IF columnId \in DOMAIN row.cells THEN row.cells[columnId] ELSE <<>>

\* updateCellMutation.isPending && variables.rowId === row.id && variables.columnId === column.id
isUpdating(rowId, columnId) ==
  /\ lastUpd # NoUpd
  /\ \E q \in updReqs : q.n = lastUpd.n
  /\ lastUpd.rowId = rowId /\ lastUpd.columnId = columnId


(***************************************************************************)
(* The state at mount.  Either the table was just created from the tab bar *)
(* (createTableMutation.onSuccess put its rows into both row caches and    *)
(* there is no further page), or the first page came from the server and   *)
(* names a next cursor.                                                    *)
(***************************************************************************)
InitialColumns ==
  (ColId(1) :> [type |-> "TEXT", position |-> 0]) @@
  (ColId(2) :> [type |-> "NUMBER", position |-> 1])

InitialCells(rows) ==
  [k \in rows \X DOMAIN InitialColumns |->
     IF k[1] = RowId(1) THEN (IF k[2] = ColId(1) THEN <<"b">> ELSE <<"9">>) ELSE <<>>]

CliFresh ==
  /\ tempCellValues = <<>>
  /\ pendingChanges = <<>>
  /\ tempToRealMapping = <<>>
  /\ lastLocalChange = 0
  /\ validationErrors = {}
  /\ pageFetch = NoFetch
  /\ updReqs = {}
  /\ lastUpd = NoUpd
  /\ createReq = NoCreate
  /\ flushes = <<>>
  /\ now = StartTime
  /\ nEdits = 0
  /\ nAdds = 0
  /\ phase = "view"
  /\ localEdits = <<>>

InitCreated ==
  /\ dbColumns = InitialColumns
  /\ dbRows = (RowId(1) :> [position |-> 0])
  /\ dbCells = InitialCells({RowId(1)})
  /\ nextRowId = 2
  /\ nextColId = 3
  /\ infiniteRowData = <<[items |-> <<RowWithCells(RowId(1))>>, nextCursor |-> NoId]>>
  /\ rowCache = [loaded |-> TRUE, rows |-> [r \in {RowId(1)} |-> RowWithCells(r).cells]]

InitPaged ==
  /\ dbColumns = InitialColumns
  /\ dbRows = (RowId(1) :> [position |-> 0]) @@ (RowId(2) :> [position |-> 1])
  /\ dbCells = InitialCells({RowId(1), RowId(2)})
  /\ nextRowId = 3
  /\ nextColId = 3
  /\ LET page == getByTableIdInfinite(dbRows, NoId, PageLimit)
     IN  infiniteRowData = <<[items |-> [i \in 1..Len(page.items) |-> RowWithCells(page.items[i])],
                              nextCursor |-> page.nextCursor]>>
  /\ rowCache = NoRows

Init ==
  /\ ValOff /\ PageOff /\ SrvOff /\ ApiOff /\ GridOff
  /\ CliFresh
  /\ (InitCreated \/ InitPaged)

(***************************************************************************)
(* A table that has seen many rows: rowRouter.create gives a new row the   *)
(* position max + 1 and rowRouter.delete leaves the positions of the other *)
(* rows alone, so after enough creations and deletions a table holds a row *)
(* at any position.  Here it holds two rows, the second at tailPosition,   *)
(* and the first page came from the server.                                *)
(***************************************************************************)
TailPositions == {TempPosition - 1, TempPosition + 1}

InitLongTable(tailPosition) ==
  /\ dbColumns = InitialColumns
  /\ dbRows = (RowId(1) :> [position |-> 0]) @@ (RowId(2) :> [position |-> tailPosition])
  /\ dbCells = InitialCells({RowId(1), RowId(2)})
  /\ nextRowId = 3
  /\ nextColId = 3
  /\ LET page == getByTableIdInfinite(dbRows, NoId, PageLimit)
     IN  infiniteRowData = <<[items |-> [i \in 1..Len(page.items) |-> RowWithCells(page.items[i])],
                              nextCursor |-> page.nextCursor]>>
  /\ rowCache = NoRows

InitLong ==
  /\ ValOff /\ PageOff /\ SrvOff /\ ApiOff /\ GridOff
  /\ CliFresh
  /\ \E tailPosition \in TailPositions : InitLongTable(tailPosition)

(***************************************************************************)
(* The server side of a cell write (cellRouter.update): the row must       *)
(* exist, the column must exist, the value must validate; then the upsert. *)
(***************************************************************************)
cellUpdateOutcome(rowId, columnId, value) ==
  IF rowId \notin DOMAIN dbRows THEN "forbidden"
  ELSE IF columnId \notin DOMAIN dbColumns THEN "not_found"
  ELSE IF ~validateCellValue(value, dbColumns[columnId].type).ok THEN "invalid"
  ELSE "ok"

upsertCell(rowId, columnId, value) ==
  Merge(dbCells, <<rowId, columnId>> :> validateCellValue(value, dbColumns[columnId].type).value)

(***************************************************************************)
(* handleCellUpdate, with the onMutate of the write it dispatches.         *)
(***************************************************************************)
SetIn(obj, a, b, v) ==
  Merge(obj, a :> Merge(IF a \in DOMAIN obj THEN obj[a] ELSE <<>>, b :> v))

\* a write is dispatched: always for a confirmed row; for a temp row only
\* if (realRowId && value.trim())
shouldDispatchAlways(isTemp, realRowId, value) == TRUE
shouldDispatch(isTemp, realRowId, value) ==
  IF isTemp THEN realRowId # NoId /\ Trim(value) # <<>> ELSE TRUE

handleCellUpdate(rowId, columnId, value) ==
  \E timestamp \in Clock :
  LET column == dbColumns[columnId]
      cellKey == <<rowId, columnId>>
      isTemp == IsTemp(rowId)
      realRowId == IF isTemp
                   THEN (IF rowId \in DOMAIN tempToRealMapping THEN tempToRealMapping[rowId] ELSE NoId)
                   ELSE rowId
      dispatch == shouldDispatch(isTemp, realRowId, value)
      \* handleCellUpdate's own write to the registry
      temp1 == IF isTemp THEN SetIn(tempCellValues, rowId, columnId, value) ELSE tempCellValues
      \* updateCellMutation.onMutate
      linkedTempRow == IF dispatch THEN linkedTempRowOf(realRowId) ELSE NoId
      temp2 == IF linkedTempRow # NoId THEN SetIn(temp1, linkedTempRow, columnId, value) ELSE temp1
      touchesCache == dispatch /\ linkedTempRow = NoId /\ rowCache.loaded
      request == [n |-> nEdits + 1, rowId |-> realRowId, columnId |-> columnId, value |-> value,
                  linkedTempRow |-> linkedTempRow,
                  previousRows |-> IF linkedTempRow = NoId THEN rowCache ELSE NoRows,
                  \* history: what the registry held for the cell before the edit
                  replaced |-> IF linkedTempRow # NoId /\ linkedTempRow \in DOMAIN tempCellValues
                                  /\ columnId \in DOMAIN tempCellValues[linkedTempRow]
                               THEN <<tempCellValues[linkedTempRow][columnId]>> ELSE <<>>,
                  stage |-> "sent"]
  IN  /\ now' = timestamp
      /\ lastLocalChange' = timestamp
      /\ nEdits' = nEdits + 1
      /\ IF getValidationError(value, column.type) # NULL
         THEN /\ validationErrors' = validationErrors \cup {cellKey}
              /\ UNCHANGED <<regVars, pendingChanges, cacheVars, reqVars, localEdits>>
         ELSE /\ validationErrors' =
                   (validationErrors \ {cellKey}) \ (IF dispatch THEN {<<realRowId, columnId>>} ELSE {})
              /\ tempCellValues' = temp2
              /\ pendingChanges' =
                   IF isTemp THEN pendingChanges
                   ELSE SetIn(pendingChanges, rowId, columnId, [value |-> value, timestamp |-> timestamp])
              /\ rowCache' =
                   IF touchesCache /\ realRowId \in DOMAIN rowCache.rows
                                   /\ columnId \in DOMAIN rowCache.rows[realRowId]
                   THEN [rowCache EXCEPT !.rows[realRowId][columnId] = value]
                   ELSE rowCache
              /\ updReqs' = IF dispatch THEN updReqs \cup {request} ELSE updReqs
              /\ lastUpd' = IF dispatch
                            THEN [n |-> nEdits + 1, rowId |-> realRowId, columnId |-> columnId]
                            ELSE lastUpd
              /\ localEdits' = Merge(localEdits, cellKey :>
                   [value |-> value,
                    rapid |-> \E q \in updReqs : q.rowId = rowId /\ q.columnId = columnId,
                    lost |-> FALSE])
              /\ UNCHANGED <<tempToRealMapping, infiniteRowData, pageFetch, createReq, flushes>>
      /\ UNCHANGED <<nAdds, phase, dbVars, valVars, gridVars, apiVars, pageVars, srvVars>>

\* the user commits an edit in the grid: the cell is rendered, is not being
\* written by the latest mutation, and the new value differs from the shown one
CellEdit ==
  /\ phase = "view"
  /\ nEdits + nAdds < MaxOps
  /\ \E k \in 1..Len(tableData), c \in DOMAIN dbColumns, v \in Values :
       /\ ~isUpdating(tableData[k].id, c)
       /\ v # cellValue(tableData[k], c)
       /\ handleCellUpdate(tableData[k].id, c, v)

\* the server handles a cell write
UpdateServer ==
  /\ phase = "view"
  /\ \E q \in updReqs :
       /\ q.stage = "sent"
       /\ LET outcome == cellUpdateOutcome(q.rowId, q.columnId, q.value)
          IN  /\ updReqs' = (updReqs \ {q}) \cup {[q EXCEPT !.stage = outcome]}
              /\ dbCells' = IF outcome = "ok" THEN upsertCell(q.rowId, q.columnId, q.value) ELSE dbCells
  /\ UNCHANGED <<dbRows, dbColumns, nextRowId, nextColId, regVars, pendingChanges, lastLocalChange,
                 validationErrors, cacheVars, pageFetch, lastUpd, createReq, flushes, envVars,
                 valVars, gridVars, apiVars, pageVars, srvVars, localEdits>>

\* delete newPending[rowId][columnId]; a row left without entries goes too
clearPending(pc, rowId, columnId) ==
  IF rowId \notin DOMAIN pc THEN pc
  ELSE LET rest == Without(pc[rowId], {columnId})
       IN  IF DOMAIN rest = {} THEN Without(pc, {rowId}) ELSE Merge(pc, rowId :> rest)

\* updateCellMutation.onSuccess
UpdateSuccess ==
  /\ phase = "view"
  /\ \E q \in updReqs :
       /\ q.stage = "ok"
       /\ updReqs' = updReqs \ {q}
       /\ pendingChanges' =
            IF q.linkedTempRow # NoId THEN pendingChanges
            ELSE clearPending(pendingChanges, q.rowId, q.columnId)
  /\ UNCHANGED <<regVars, lastLocalChange, validationErrors, cacheVars, pageFetch, lastUpd,
                 createReq, flushes, envVars, dbVars, valVars, gridVars, apiVars, pageVars, srvVars, localEdits>>

\* the registry after a failed write that was linked to a temp row
revertTempValue(tcv, linkedTempRow, savedColumnId) ==
  IF linkedTempRow \in DOMAIN tcv /\ savedColumnId \in DOMAIN tcv[linkedTempRow]
     /\ tcv[linkedTempRow][savedColumnId] # <<>>
  THEN LET rest == Without(tcv[linkedTempRow], {savedColumnId})
       IN  IF DOMAIN rest = {} THEN Without(tcv, {linkedTempRow})
           ELSE Merge(tcv, linkedTempRow :> rest)
  ELSE tcv

\* updateCellMutation.onError: the server refused the write or the transport failed
UpdateError ==
  /\ phase = "view"
  /\ \E q \in updReqs :
       /\ q.stage \in {"sent", "invalid", "forbidden", "not_found"}
       /\ updReqs' = updReqs \ {q}
       /\ validationErrors' =
            IF q.stage = "invalid" THEN validationErrors \cup {<<q.rowId, q.columnId>>}
            ELSE validationErrors
       /\ IF q.linkedTempRow # NoId
          THEN /\ tempCellValues' = revertTempValue(tempCellValues, q.linkedTempRow, q.columnId)
               /\ UNCHANGED <<rowCache, pendingChanges>>
          ELSE /\ rowCache' = IF q.previousRows.loaded THEN q.previousRows ELSE rowCache
               /\ pendingChanges' = clearPending(pendingChanges, q.rowId, q.columnId)
               /\ UNCHANGED tempCellValues
       /\ localEdits' =
            [k \in DOMAIN localEdits |->
               IF k[2] = q.columnId /\ k[1] \in {q.rowId, q.linkedTempRow}
               THEN [localEdits[k] EXCEPT !.lost = TRUE] ELSE localEdits[k]]
  /\ UNCHANGED <<tempToRealMapping, lastLocalChange, infiniteRowData, pageFetch, lastUpd,
                 createReq, flushes, envVars, dbVars, valVars, gridVars, apiVars, pageVars, srvVars>>


(***************************************************************************)
(* Adding a row: handleAddRow, createRowMutation and the saveTempValues    *)
(* loop that writes the temp row's values to the real row.                 *)
(***************************************************************************)
\* the add-row button; it is disabled while createRowMutation is pending
\* createRowMutation.mutate with its onMutate: the temp row id, its empty
\* value map in the registry, and the request on its way
beginRow(tempRowId, t) ==
  /\ now' = t
  /\ tempCellValues' = Merge(tempCellValues, tempRowId :> <<>>)
  /\ createReq' = [tempRowId |-> tempRowId, stage |-> "sent", realRow |-> NoId]
  /\ nAdds' = nAdds + 1
  /\ UNCHANGED <<tempToRealMapping, pendingChanges, lastLocalChange, validationErrors, cacheVars,
                 pageFetch, updReqs, lastUpd, flushes, nEdits, phase,
                 dbVars, valVars, gridVars, apiVars, pageVars, srvVars, localEdits>>

\* a session with a single added row: the registry never holds two temp
\* rows, and the row is named by its number instead of the clock reading
handleAddRow ==
  /\ phase = "view"
  /\ nAdds < MaxAdds
  /\ nEdits + nAdds < MaxOps
  /\ createReq.stage = "idle"
  /\ \E t \in Clock : beginRow(TempId(nAdds + 1), t)

\* a session with several added rows: tempRowId = `temp-row-${Date.now()}`
handleAddRowAt ==
  /\ phase = "view"
  /\ nAdds < MaxRapidAdds
  /\ nEdits + nAdds < MaxOps
  /\ createReq.stage = "idle"
  /\ \E t \in Clock : beginRow(TempId(t), t)

\* rowRouter.create on the server: the row at the next position, one empty
\* cell per column
CreateRowServer ==
  /\ phase = "view"
  /\ createReq.stage = "sent"
  /\ LET newRow == RowId(nextRowId)
     IN  /\ dbRows' = Merge(dbRows, newRow :> [position |-> lastPosition(dbRows) + 1])
         /\ dbCells' = Merge(dbCells, [k \in {newRow} \X DOMAIN dbColumns |-> <<>>])
         /\ nextRowId' = nextRowId + 1
         /\ createReq' = [createReq EXCEPT !.stage = "ok", !.realRow = newRow]
  /\ UNCHANGED <<dbColumns, nextColId, regVars, pendingChanges, lastLocalChange, validationErrors,
                 cacheVars, pageFetch, updReqs, lastUpd, flushes, envVars,
                 valVars, gridVars, apiVars, pageVars, srvVars, localEdits>>

\* Object.entries(currentTempValues) with no value skipped
flushEntriesAll(tempRowId) ==
  IF tempRowId \notin DOMAIN tempCellValues THEN {}
  ELSE {[columnId |-> c, value |-> tempCellValues[tempRowId][c]] :
          c \in DOMAIN tempCellValues[tempRowId]}

\* Object.entries(currentTempValues) with the blank values skipped
flushEntries(tempRowId) ==
  IF tempRowId \notin DOMAIN tempCellValues THEN {}
  ELSE {[columnId |-> c, value |-> tempCellValues[tempRowId][c]] :
          c \in {c \in DOMAIN tempCellValues[tempRowId] : Trim(tempCellValues[tempRowId][c]) # <<>>}}

\* the value map keeps its keys in the order they were first written
flushQueues(tempRowId) ==
  LET E == flushEntries(tempRowId)
  IN  {q \in [1..Cardinality(E) -> E] : \A i, j \in 1..Cardinality(E) : i # j => q[i] # q[j]}

\* createRowMutation.onSuccess: the mapping entry, then saveTempValues starts
CreateRowSuccess ==
  /\ phase = "view"
  /\ createReq.stage = "ok"
  /\ tempToRealMapping' = Merge(tempToRealMapping, createReq.tempRowId :> createReq.realRow)
  /\ \E queue \in flushQueues(createReq.tempRowId) :
       flushes' = IF queue = <<>> THEN flushes
                  ELSE Merge(flushes, createReq.realRow :> [queue |-> queue, stage |-> "sent"])
  /\ createReq' = NoCreate
  /\ UNCHANGED <<tempCellValues, pendingChanges, lastLocalChange, validationErrors, cacheVars,
                 pageFetch, updReqs, lastUpd, envVars, dbVars, valVars, gridVars, apiVars, pageVars, srvVars, localEdits>>

\* an onError that takes back the optimistic row of onMutate
discardTempRow(tcv, tempRowId) == Without(tcv, {tempRowId})

\* what createRowMutation.onError does to the value map: nothing
keepTempRow(tcv, tempRowId) == tcv

\* createRowMutation.onError: the failure is logged, the temp row stays
CreateRowError ==
  /\ phase = "view"
  /\ createReq.stage = "sent"
  /\ createReq' = NoCreate
  /\ tempCellValues' = keepTempRow(tempCellValues, createReq.tempRowId)
  /\ UNCHANGED <<tempToRealMapping, pendingChanges, lastLocalChange, validationErrors, cacheVars,
                 pageFetch, updReqs, lastUpd, flushes, envVars, dbVars, valVars, gridVars, apiVars, pageVars, srvVars, localEdits>>

\* the server handles the write saveTempValues is awaiting
FlushServer ==
  /\ phase = "view"
  /\ \E r \in DOMAIN flushes :
       /\ flushes[r].stage = "sent"
       /\ LET e == Head(flushes[r].queue)
              outcome == cellUpdateOutcome(r, e.columnId, e.value)
          IN  /\ flushes' = [flushes EXCEPT ![r].stage = outcome]
              /\ dbCells' = IF outcome = "ok" THEN upsertCell(r, e.columnId, e.value) ELSE dbCells
  /\ UNCHANGED <<dbRows, dbColumns, nextRowId, nextColId, regVars, pendingChanges, lastLocalChange,
                 validationErrors, cacheVars, pageFetch, updReqs, lastUpd, createReq, envVars,
                 valVars, gridVars, apiVars, pageVars, srvVars, localEdits>>

\* a loop that gives up at the first write that did not resolve
settledFlushStop(fl, r) ==
  IF Len(fl[r].queue) = 1 \/ fl[r].stage # "ok" THEN Without(fl, {r})
  ELSE [fl EXCEPT ![r] = [queue |-> Tail(fl[r].queue), stage |-> "sent"]]

\* one turn of the for loop of saveTempValues: the entry awaited is done
\* with, whatever became of it, and the next entry (if any) is sent
settledFlush(fl, r) ==
  IF Len(fl[r].queue) = 1 THEN Without(fl, {r})
  ELSE [fl EXCEPT ![r] = [queue |-> Tail(fl[r].queue), stage |-> "sent"]]

\* the awaited write settles (resolved, refused, or lost in transport: the
\* catch only logs) and the loop goes on to the next entry
FlushSettled ==
  /\ phase = "view"
  /\ \E r \in DOMAIN flushes : flushes' = settledFlush(flushes, r)
  /\ UNCHANGED <<regVars, pendingChanges, lastLocalChange, validationErrors, cacheVars,
                 pageFetch, updReqs, lastUpd, createReq, envVars, dbVars, valVars, gridVars, apiVars, pageVars, srvVars, localEdits>>

(***************************************************************************)
(* The reaper: the setInterval callback of the auto-finalize effect.  The  *)
(* effect restarts its interval whenever lastLocalChange changes.          *)
(***************************************************************************)
\* a cleanup that spares the ledger while the user is active
cleanedPendingWhenIdle(pc, t) ==
  LET kept(r) == [c \in {c \in DOMAIN pc[r] : ~(t - pc[r][c].timestamp > ReapThreshold)} |-> pc[r][c]]
  IN  IF t - lastLocalChange > ReapThreshold
      THEN [r \in {r \in DOMAIN pc : DOMAIN kept(r) # {}} |-> kept(r)]
      ELSE pc

cleanedPending(pc, t) ==
  LET kept(r) == [c \in {c \in DOMAIN pc[r] : ~(t - pc[r][c].timestamp > ReapThreshold)} |-> pc[r][c]]
  IN  [r \in {r \in DOMAIN pc : DOMAIN kept(r) # {}} |-> kept(r)]

autoFinalize ==
  /\ phase = "view"
  /\ \E t \in Clock :
       /\ t - lastLocalChange >= ReapInterval
       /\ now' = t
       /\ IF t - lastLocalChange > ReapThreshold
          THEN /\ tempCellValues' = Without(tempCellValues, DOMAIN tempToRealMapping)
               /\ tempToRealMapping' = <<>>
          ELSE UNCHANGED regVars
       /\ pendingChanges' = cleanedPending(pendingChanges, t)
  /\ UNCHANGED <<lastLocalChange, validationErrors, cacheVars, reqVars, nEdits, nAdds, phase,
                 dbVars, valVars, gridVars, apiVars, pageVars, srvVars, localEdits>>

(***************************************************************************)
(* Paging: the infinite-scroll effect of DataGrid asks for the next page   *)
(* whenever there is one and none is being fetched.                        *)
(***************************************************************************)
fetchNextPage ==
  /\ phase = "view"
  /\ hasNextPage
  /\ ~isFetchingNextPage
  /\ pageFetch' = [cursor |-> infiniteRowData[Len(infiniteRowData)].nextCursor,
                   stage |-> "sent", page |-> NoPage]
  /\ cursorsFetched' = Append(cursorsFetched, infiniteRowData[Len(infiniteRowData)].nextCursor)
  /\ UNCHANGED <<regVars, pendingChanges, lastLocalChange, validationErrors, cacheVars,
                 updReqs, lastUpd, createReq, flushes, envVars, dbVars, valVars, delReqs, columnsCache, colReqs, apiVars, pageVars, srvVars, localEdits>>

\* the server reads the page
PageServer ==
  /\ phase = "view"
  /\ pageFetch.stage = "sent"
  /\ LET page == getByTableIdInfinite(dbRows, pageFetch.cursor, PageLimit)
     IN  pageFetch' = [pageFetch EXCEPT !.stage = "read", !.page = [items |-> [i \in 1..Len(page.items) |-> RowWithCells(page.items[i])],
                                                  nextCursor |-> page.nextCursor]]
  /\ UNCHANGED <<regVars, pendingChanges, lastLocalChange, validationErrors, cacheVars,
                 updReqs, lastUpd, createReq, flushes, envVars, dbVars, valVars, gridVars, apiVars, pageVars, srvVars, localEdits>>

\* the page arrives and is appended to the cached pages
PageDelivered ==
  /\ phase = "view"
  /\ pageFetch.stage = "read"
  /\ infiniteRowData' = Append(infiniteRowData, pageFetch.page)
  /\ pageFetch' = NoFetch
  /\ UNCHANGED <<regVars, pendingChanges, lastLocalChange, validationErrors, rowCache,
                 updReqs, lastUpd, createReq, flushes, envVars, dbVars, valVars, gridVars, apiVars, pageVars, srvVars, localEdits>>

\* the page request fails (retry: false): the grid gives way to the error
\* message until the page is reloaded, which ends the session modelled here
PageFailed ==
  /\ phase = "view"
  /\ pageFetch.stage = "sent"
  /\ pageFetch' = NoFetch
  /\ phase' = "error"
  /\ UNCHANGED <<regVars, pendingChanges, lastLocalChange, validationErrors, cacheVars,
                 updReqs, lastUpd, createReq, flushes, now, nEdits, nAdds,
                 dbVars, valVars, gridVars, apiVars, pageVars, srvVars, localEdits>>

Next ==
  \/ CellEdit
  \/ UpdateServer
  \/ UpdateSuccess
  \/ UpdateError
  \/ handleAddRow
  \/ CreateRowServer
  \/ CreateRowSuccess
  \/ CreateRowError
  \/ FlushServer
  \/ FlushSettled
  \/ autoFinalize
  \/ fetchNextPage
  \/ PageServer
  \/ PageDelivered
  \/ PageFailed

Spec == Init /\ [][Next]_vars

SpecLong == InitLong /\ [][Next]_vars

(***************************************************************************)
(* The sessions in which the user adds more than one row, on a table that  *)
(* was just created (there is no further page to fetch).                   *)
(***************************************************************************)
InitAdd ==
  /\ ValOff /\ PageOff /\ SrvOff /\ ApiOff /\ GridOff
  /\ CliFresh
  /\ InitCreated

NextAdd ==
  \/ CellEdit
  \/ UpdateServer
  \/ UpdateSuccess
  \/ UpdateError
  \/ handleAddRowAt
  \/ CreateRowServer
  \/ CreateRowSuccess
  \/ CreateRowError
  \/ FlushServer
  \/ FlushSettled
  \/ autoFinalize

SpecAdd == InitAdd /\ [][NextAdd]_vars

(***************************************************************************)
(* Column creation: createColumnMutation of the table view, on the cache   *)
(* of column.getByTableId (a list of Column records in the order of the    *)
(* server's answer, kept for the session).  The names of the columns play  *)
(* no part in the handlers and are left out.                               *)
(***************************************************************************)
MaxColumns == 5

\* a column as the server returns it
ColumnRecord(id) == [id |-> id, type |-> dbColumns[id].type, position |-> dbColumns[id].position]

\* `temp-${Date.now()}`
TempColId(t) == <<"temp-", t>>

\* col.id.startsWith('temp-')
IsTempColumn(id) == id[1] = "temp-"

\* a create-field dialog whose button never waits
createColumnNeverPending == FALSE

\* the "Create field" button is disabled while a creation is pending
createColumnIsPending == colReqs # {}

InitColumn ==
  /\ ValOff /\ PageOff /\ SrvOff /\ ApiOff
  /\ CliFresh
  /\ InitCreated
  /\ cursorsFetched = <<>>
  /\ delReqs = {}
  /\ columnsCache = [i \in 1..Len(columns) |-> ColumnRecord(columns[i])]
  /\ colReqs = {}

\* handleCreateField and createColumnMutation.onMutate
handleCreateField ==
  /\ ~createColumnIsPending
  /\ nextColId + Cardinality(colReqs) <= MaxColumns
  /\ \E t \in Clock, type \in ColumnTypes :
       /\ now' = t
       /\ columnsCache' = Append(columnsCache,
              [id |-> TempColId(t), type |-> type, position |-> Len(columnsCache)])
       /\ colReqs' = colReqs \cup {[tempId |-> TempColId(t), type |-> type,
                                    previousColumns |-> columnsCache,
                                    stage |-> "sent", realColumn |-> NoId]}
  /\ UNCHANGED <<regVars, pendingChanges, lastLocalChange, validationErrors, cacheVars, reqVars,
                 nEdits, nAdds, phase, localEdits, dbVars, valVars, pageVars, srvVars, apiVars,
                 cursorsFetched, delReqs>>

\* columnRouter.create: the column gets the position after the last one and
\* an empty cell in every row; or the request is refused
ColumnServer ==
  /\ \E q \in colReqs :
       /\ q.stage = "sent"
       /\ \/ /\ dbColumns' = Merge(dbColumns,
                   ColId(nextColId) :> [type |-> q.type, position |-> lastPosition(dbColumns) + 1])
             /\ nextColId' = nextColId + 1
             /\ dbCells' = Merge(dbCells, [k \in (DOMAIN dbRows) \X {ColId(nextColId)} |-> <<>>])
             /\ colReqs' = (colReqs \ {q}) \cup
                   {[q EXCEPT !.stage = "ok",
                              !.realColumn = [id |-> ColId(nextColId), type |-> q.type,
                                              position |-> lastPosition(dbColumns) + 1]]}
          \/ /\ colReqs' = (colReqs \ {q}) \cup {[q EXCEPT !.stage = "failed"]}
             /\ UNCHANGED <<dbColumns, dbCells, nextColId>>
  /\ UNCHANGED <<dbRows, nextRowId, cliVars, valVars, pageVars, srvVars, apiVars,
                 cursorsFetched, delReqs, columnsCache>>

\* oldColumns.map(col => col.id.startsWith('temp-') ? realColumn : col)
replacedPlaceholders(oldColumns, realColumn) ==
  [i \in 1..Len(oldColumns) |->
     IF IsTempColumn(oldColumns[i].id) THEN realColumn ELSE oldColumns[i]]

\* createColumnMutation.onSuccess
ColumnSuccess ==
  /\ \E q \in colReqs :
       /\ q.stage = "ok"
       /\ columnsCache' = replacedPlaceholders(columnsCache, q.realColumn)
       /\ colReqs' = colReqs \ {q}
  /\ UNCHANGED <<dbVars, cliVars, valVars, pageVars, srvVars, apiVars, cursorsFetched, delReqs>>

\* createColumnMutation.onError: the server refused or the transport failed
ColumnError ==
  /\ \E q \in colReqs :
       /\ q.stage \in {"sent", "failed"}
       /\ columnsCache' = q.previousColumns
       /\ colReqs' = colReqs \ {q}
  /\ UNCHANGED <<dbVars, cliVars, valVars, pageVars, srvVars, apiVars, cursorsFetched, delReqs>>

NextColumn ==
  \/ handleCreateField
  \/ ColumnServer
  \/ ColumnSuccess
  \/ ColumnError

SpecColumn == InitColumn /\ [][NextColumn]_vars

(***************************************************************************)
(* Row deletion: the table view with the "Actions" column.  Its rows come  *)
(* from the row.getByTableId query (started from initialData, observed for *)
(* the whole session); handleCellUpdate, updateCellMutation,               *)
(* createRowMutation and the reaper are those of the view above, but for   *)
(* the number validation of handleCellUpdate, so the values entered here   *)
(* are the ones that pass it.                                              *)
(***************************************************************************)
MaxDeletes == 1

\* the ids of smartDataSelect(rawTableData): every temp row of the registry,
\* and every cached row to which no temp row of the registry is mapped
shownIds ==
  DOMAIN tempCellValues \cup
  {r \in DOMAIN rowCache.rows :
     ~(linkedTempRowOf(r) # NoId /\ linkedTempRowOf(r) \in DOMAIN tempCellValues)}

\* the string the cell of a shown row shows
shownCached(id, columnId) ==
  IF IsTemp(id) THEN ValueOr(tempCellValues, id, columnId)
  ELSE IF id \in DOMAIN pendingChanges /\ columnId \in DOMAIN pendingChanges[id]
  THEN pendingChanges[id][columnId].value
  ELSE ValueOr(rowCache.rows, id, columnId)

\* row.getByTableId as the server answers it
getByTableId == [loaded |-> TRUE, rows |-> [r \in DOMAIN dbRows |-> RowWithCells(r).cells]]

InitDelete ==
  /\ ValOff /\ PageOff /\ SrvOff /\ ApiOff /\ GridOff
  /\ CliFresh
  /\ dbColumns = InitialColumns
  /\ dbRows = (RowId(1) :> [position |-> 0])
  /\ dbCells = InitialCells({RowId(1)})
  /\ nextRowId = 2
  /\ nextColId = 3
  /\ infiniteRowData = <<>>
  /\ rowCache = [loaded |-> TRUE, rows |-> [r \in {RowId(1)} |-> RowWithCells(r).cells]]

\* the user commits an edit in a cell of a shown row
CellEditCached ==
  /\ phase = "view"
  /\ nEdits + nAdds < MaxOps
  /\ \E id \in shownIds, c \in DOMAIN dbColumns, v \in Values :
       /\ getValidationError(v, dbColumns[c].type) = NULL
       /\ ~isUpdating(id, c)
       /\ v # shownCached(id, c)
       /\ handleCellUpdate(id, c, v)

\* batchUpdateCells.onError invalidates row.getByTableId, which the view
\* observes: the rows are fetched again (the answer is taken to arrive with
\* the failure); then the loop of saveTempValues goes on
FlushSettledRefetch ==
  /\ phase = "view"
  /\ \E r \in DOMAIN flushes :
       /\ flushes' = settledFlush(flushes, r)
       /\ rowCache' = IF flushes[r].stage # "ok" THEN getByTableId ELSE rowCache
  /\ UNCHANGED <<regVars, pendingChanges, lastLocalChange, validationErrors, infiniteRowData,
                 pageFetch, updReqs, lastUpd, createReq, envVars, dbVars, valVars, gridVars,
                 apiVars, pageVars, srvVars, localEdits>>

\* the button is disabled while a deletion is pending
deleteRowIsPending == \E q \in delReqs : q.stage \in {"sent", "ok", "forbidden"}

\* deleteRowMutation.onMutate, with the id the button passes; the ledger is
\* not among the stores it writes
deleteRow(id) ==
  LET wasTempRow == IsTemp(id)
      tempRowId == linkedTempRowOf(id)
      removed == IF wasTempRow THEN {id} ELSE IF tempRowId # NoId THEN {tempRowId} ELSE {}
  IN  /\ tempCellValues' = Without(tempCellValues, removed)
      /\ tempToRealMapping' = Without(tempToRealMapping, removed)
      /\ rowCache' = IF wasTempRow THEN rowCache
                     ELSE [rowCache EXCEPT !.rows = Without(rowCache.rows, {id})]
      /\ delReqs' = delReqs \cup
            {[n |-> Cardinality(delReqs) + 1, id |-> id, stage |-> "sent",
              previousRows |-> rowCache, wasTempRow |-> wasTempRow,
              \* history: the real row the deleted temp row stood for
              realRowId |-> IF wasTempRow /\ id \in DOMAIN tempToRealMapping
                            THEN tempToRealMapping[id] ELSE NoId]}
      /\ UNCHANGED <<pendingChanges, lastLocalChange, validationErrors, infiniteRowData,
                     reqVars, envVars, localEdits, dbVars, valVars, pageVars, srvVars, apiVars,
                     cursorsFetched, columnsCache, colReqs>>

\* the delete button of a shown row: row.original.id is the id the row is
\* rendered under
handleDeleteRow ==
  /\ phase = "view"
  /\ ~deleteRowIsPending
  /\ Cardinality(delReqs) < MaxDeletes
  /\ \E id \in shownIds : deleteRow(id)

\* rowRouter.delete: FORBIDDEN when no row has the id; else the row goes,
\* and its cells with it
DeleteServer ==
  /\ \E q \in delReqs :
       /\ q.stage = "sent"
       /\ IF q.id \in DOMAIN dbRows
          THEN /\ dbRows' = Without(dbRows, {q.id})
               /\ dbCells' = Without(dbCells, {k \in DOMAIN dbCells : k[1] = q.id})
               /\ delReqs' = (delReqs \ {q}) \cup {[q EXCEPT !.stage = "ok"]}
          ELSE /\ delReqs' = (delReqs \ {q}) \cup {[q EXCEPT !.stage = "forbidden"]}
               /\ UNCHANGED <<dbRows, dbCells>>
  /\ UNCHANGED <<dbColumns, nextRowId, nextColId, cliVars, valVars, pageVars, srvVars, apiVars,
                 cursorsFetched, columnsCache, colReqs>>

\* deleteRowMutation.onSuccess: silent
DeleteSuccess ==
  /\ \E q \in delReqs :
       /\ q.stage = "ok"
       /\ delReqs' = (delReqs \ {q}) \cup {[q EXCEPT !.stage = "done"]}
  /\ UNCHANGED <<dbVars, cliVars, valVars, pageVars, srvVars, apiVars,
                 cursorsFetched, columnsCache, colReqs>>

\* deleteRowMutation.onError: the server refused or the transport failed
DeleteError ==
  /\ \E q \in delReqs :
       /\ q.stage \in {"sent", "forbidden"}
       /\ rowCache' = IF ~q.wasTempRow THEN q.previousRows ELSE rowCache
       /\ delReqs' = (delReqs \ {q}) \cup {[q EXCEPT !.stage = "failed"]}
  /\ UNCHANGED <<regVars, pendingChanges, lastLocalChange, validationErrors, infiniteRowData,
                 reqVars, envVars, localEdits, dbVars, valVars, pageVars, srvVars, apiVars,
                 cursorsFetched, columnsCache, colReqs>>

NextDelete ==
  \/ CellEditCached
  \/ UpdateServer
  \/ UpdateSuccess
  \/ UpdateError
  \/ handleAddRow
  \/ CreateRowServer
  \/ CreateRowSuccess
  \/ CreateRowError
  \/ FlushServer
  \/ FlushSettledRefetch
  \/ autoFinalize
  \/ handleDeleteRow
  \/ DeleteServer
  \/ DeleteSuccess
  \/ DeleteError

SpecDelete == InitDelete /\ [][NextDelete]_vars




(***************************************************************************)
(*                              The claims                                 *)
(***************************************************************************)

\* the entry of the view that carries the id, and the string its cell shows
Rendered(id) == HasRow(tableData, id)

shownValue(id, columnId) == cellValue(FindRow(tableData, id), columnId)

\* the row an id stands for: a mapped temp row stands for its real row
Logical(id) ==
  IF id \in DOMAIN tempToRealMapping THEN tempToRealMapping[id] ELSE id

C2_LocalValueShown ==
  LET view == tableData
  IN  \A i \in 1..Len(view), c \in DOMAIN dbColumns :
        LET k == <<view[i].id, c>>
        IN  (k \in DOMAIN localEdits /\ ~localEdits[k].lost) =>
               cellValue(view[i], c) = localEdits[k].value

\* C3: a cell of a confirmed row was set to v1 and then, while a write of
\* the cell was still in flight, to v2; once no write of the cell is in
\* flight any more (and none has failed) the cell shows v2 and the server
\* stores v2.
C3_RapidDoubleEdit ==
  \A k \in DOMAIN localEdits :
    (/\ ~IsTemp(k[1])
     /\ localEdits[k].rapid
     /\ ~localEdits[k].lost
     /\ ~\E q \in updReqs : q.rowId = k[1] /\ q.columnId = k[2]) =>
       /\ Rendered(k[1]) => shownValue(k[1], k[2]) = localEdits[k].value
       /\ dbCells[k] = validateCellValue(localEdits[k].value, dbColumns[k[2]].type).value

\* the step on which createRowMutation.onSuccess runs
CreateResolves == createReq.stage = "ok" /\ createReq'.stage = "idle"

\* the places in the queue of the flush loop the real row has after the step
FlushedWrites(realRowId) ==
  IF realRowId \in DOMAIN flushes' THEN DOMAIN flushes'[realRowId].queue ELSE {}

\* every temp row of the registry is rendered under its temp id and shows,
\* cell by cell, the value the registry holds for it
TempRowsShowRegistry ==
  LET view == tableData
  IN  \A t \in DOMAIN tempCellValues :
        /\ HasRow(view, t)
        /\ \A c \in DOMAIN dbColumns :
             cellValue(FindRow(view, t), c) = ValueOr(tempCellValues, t, c)

C5_MergePrecedence ==
  \A k \in 1..Len(allRows) :
    LET row == allRows[k]
        view == tableData
        hidden == \E t \in DOMAIN tempCellValues :
                     t \in DOMAIN tempToRealMapping /\ tempToRealMapping[t] = row.id
    IN  ~hidden =>
          /\ HasRow(view, row.id)
          /\ \A c \in DOMAIN row.cells :
               LET expected == IF row.id \in DOMAIN pendingChanges /\ c \in DOMAIN pendingChanges[row.id]
                               THEN pendingChanges[row.id][c].value
                               ELSE row.cells[c]
               IN  /\ FindRow(view, row.id).cells[c] = expected
                   /\ cellValue(FindRow(view, row.id), c) = expected

\* a confirmed row with one cell under a ledger entry that differs from the
\* server value, and another cell without an entry
C5_Witness ==
  \E k \in 1..Len(allRows) :
    LET row == allRows[k]
    IN  /\ Rendered(row.id)
        /\ row.id \in DOMAIN pendingChanges
        /\ \E c \in DOMAIN row.cells :
             c \in DOMAIN pendingChanges[row.id] /\ pendingChanges[row.id][c].value # row.cells[c]
        /\ \E c \in DOMAIN row.cells : c \notin DOMAIN pendingChanges[row.id]

\* C6: for a temp row mapped to a confirmed row that is present in the
\* server data, the view holds exactly one row for the identity, it carries
\* the temp id, and every cell of it shows the value of the temp value map
\* (the empty string for a column absent from the map), never the server value.
C6_TempRowOverride ==
  \A t \in DOMAIN tempCellValues :
    (t \in DOMAIN tempToRealMapping /\ HasRow(allRows, tempToRealMapping[t])) =>
       LET view == tableData
       IN  /\ HasRow(view, t)
           /\ Cardinality({i \in 1..Len(view) : view[i].id \in {t, tempToRealMapping[t]}}) = 1
           /\ \A c \in DOMAIN dbColumns :
                LET expected == ValueOr(tempCellValues, t, c)
                IN  /\ c \in DOMAIN FindRow(view, t).cells
                    /\ FindRow(view, t).cells[c] = expected
                    /\ cellValue(FindRow(view, t), c) = expected

\* a mapped temp row over a loaded confirmed row whose server value for some
\* cell differs from the temp value
C6_Witness ==
  \E t \in DOMAIN tempCellValues :
    /\ t \in DOMAIN tempToRealMapping
    /\ HasRow(allRows, tempToRealMapping[t])
    /\ \E c \in DOMAIN dbColumns :
         /\ FindRow(allRows, tempToRealMapping[t]).cells[c] # <<>>
         /\ FindRow(allRows, tempToRealMapping[t]).cells[c] # ValueOr(tempCellValues, t, c)

\* the number grammar of the specification, stated on the string itself:
\* optional leading '-', digits with at most one '.', optional e/E exponent
\* with optional sign
IsMantissa(m) ==
  /\ \A k \in 1..Len(m) : m[k] \in Digits \cup {"."}
  /\ Cardinality({k \in 1..Len(m) : m[k] = "."}) <= 1
  /\ \E k \in 1..Len(m) : m[k] \in Digits

IsExponent(x) ==
  \/ x = <<>>
  \/ /\ Len(x) >= 2
     /\ x[1] \in {"e", "E"}
     /\ LET d == IF x[2] \in {"+", "-"} THEN SubSeq(x, 3, Len(x)) ELSE SubSeq(x, 2, Len(x))
        IN  d # <<>> /\ \A k \in 1..Len(d) : d[k] \in Digits

NumberGrammar(s) ==
  \E i \in 0..1, j \in 0..Len(s) :
    /\ i <= j
    /\ (i = 1 => s # <<>> /\ s[1] = "-")
    /\ IsMantissa(SubSeq(s, i + 1, j))
    /\ IsExponent(SubSeq(s, j + 1, Len(s)))

AcceptedExamples ==
  {<<"1", "2", "3">>, <<"-", "4", "5", ".", "6", "7">>, <<"1", ".", "2", "e", "-", "3">>, <<>>}

RejectedExamples ==
  {<<"1", "2", "a">>, <<"1", ".", ".", "2">>, <<"-", "-", "5">>}

\* C7: for a NUMBER column a validator accepts exactly the strings whose
\* trimmed form is empty or follows the number grammar; the named examples
\* are accepted and rejected as listed; the client validator and the server
\* validator agree on every input.
C7_NumericValidation ==
  vPhase = "done" =>
    /\ vClient = (Trim(vInput) = <<>> \/ NumberGrammar(Trim(vInput)))
    /\ vServer = (Trim(vInput) = <<>> \/ NumberGrammar(Trim(vInput)))
    /\ vInput \in AcceptedExamples => vClient /\ vServer
    /\ vInput \in RejectedExamples => ~vClient /\ ~vServer
    /\ vClient = vServer

\* a string that fails NUMBER validation, by the grammar
FailsNumberValidation(value, columnId) ==
  /\ dbColumns[columnId].type = "NUMBER"
  /\ Trim(value) # <<>>
  /\ ~NumberGrammar(Trim(value))

\* C8: a cell edit whose value fails NUMBER validation is rejected before
\* dispatch: no write request is sent, the ledger and the temp-row registry
\* stay as they are, and a validation error is recorded for exactly the
\* edited cell and for no other.
C8_InvalidEditRejected ==
  [][nEdits' # nEdits =>
       \A r \in DOMAIN tempCellValues \cup DOMAIN dbRows, c \in DOMAIN dbColumns, v \in Values :
         (FailsNumberValidation(v, c) /\ handleCellUpdate(r, c, v)) =>
            /\ updReqs' = updReqs
            /\ flushes' = flushes
            /\ lastUpd' = lastUpd
            /\ pendingChanges' = pendingChanges
            /\ tempCellValues' = tempCellValues
            /\ tempToRealMapping' = tempToRealMapping
            /\ dbCells' = dbCells
            /\ <<r, c>> \in validationErrors'
            /\ validationErrors' \ {<<r, c>>} = validationErrors \ {<<r, c>>}]_vars

\* a rejected edit has happened: its cell carries the error, nothing is in flight
C8_Witness ==
  /\ nEdits = 1
  /\ \E k \in validationErrors : dbColumns[k[2]].type = "NUMBER"
  /\ updReqs = {}
  /\ pendingChanges = <<>>

\* the rows of the table in ascending position order
AllRowsSorted == SortByPosition(DOMAIN dbRows, dbRows)

Min2(a, b) == IF a < b THEN a ELSE b

\* C9: for a table with more than limit rows the first call returns exactly
\* limit items and a nextCursor equal to the id of the last item returned; a
\* call with that cursor returns the rows that follow; the last page carries
\* no nextCursor (limit 50 and 51 rows: 50 items and the 50th id, then the
\* 51st row and no nextCursor).
C9_PaginationBoundary ==
  LET n == Len(AllRowsSorted)
  IN  /\ (Len(pgPages) >= 1 /\ n > pgLimit) =>
            /\ Len(pgPages[1].items) = pgLimit
            /\ pgPages[1].nextCursor = pgPages[1].items[pgLimit]
      /\ \A k \in 2..Len(pgPages) :
            pgPages[k].items =
               SubSeq(AllRowsSorted, (k - 1) * pgLimit + 1, Min2(k * pgLimit, n))
      /\ \A k \in 1..Len(pgPages) :
            (k * pgLimit >= n) => pgPages[k].nextCursor = NoId

\* C10: once all createRow and createColumn requests have finished, every
\* row of the table has exactly one cell for every column of the table.
C10_TableCompleteness ==
  (\A i \in 1..Len(srvReqs) : Finished(srvReqs[i])) =>
     \A r \in DOMAIN dbRows, c \in DOMAIN dbColumns : <<r, c>> \in DOMAIN dbCells

(***************************************************************************)
(* Claims about the routers (SpecApi).                                     *)
(***************************************************************************)
\* the Cell records of a (rowId, columnId) pair
cellsAt(rowId, columnId) ==
  {x \in apiCells : x.rowId = rowId /\ x.columnId = columnId}

\* C11: in every reachable server state at most one Cell exists per
\* (rowId, columnId) pair; after a cell write has succeeded, whether the pair
\* had a Cell or not and whether the same write was made before or not, the
\* pair has exactly one Cell and it holds the written value (in the
\* validating file: the value as validateCellValue returns it).
C11_CellUniqueness ==
  /\ \A x \in apiCells, y \in apiCells :
       (x.rowId = y.rowId /\ x.columnId = y.columnId) => x = y
  /\ (apiLast.op = "cell.update" /\ apiLast.outcome = "ok") =>
       LET rowId == apiLast.input[1]
           columnId == apiLast.input[2]
           written == storedValue(apiVariant, apiLast.input[3],
                                  apiColumns[columnId].type).value
       IN  /\ Cardinality(cellsAt(rowId, columnId)) = 1
           /\ \A x \in cellsAt(rowId, columnId) : x.value = written

\* the same cell write has been served twice in a row, with a value that is
\* not empty
C11_Witness ==
  /\ apiLast.op = "cell.update"
  /\ apiLast.outcome = "ok"
  /\ apiLast.repeat
  /\ apiLast.input[3] # <<>>
  /\ \E x \in cellsAt(apiLast.input[1], apiLast.input[2]) : x.value # <<>>

\* a row of the table has been deleted
rowDeletedFrom(tableId) ==
  \E g \in apiGone : g.kind = "row" /\ g.tableId = tableId

\* C12: a table that was created empty and on which createRow has been
\* served N times, one request after another and no row deleted, has N rows
\* whose positions are exactly 0..N-1, each position once, ascending in the
\* order the rows were created.
C12_RowPositions ==
  \A t \in DOMAIN apiTables :
    ~rowDeletedFrom(t) =>
      /\ {apiRows[r].position : r \in rowsOf(t)} = 0..(Cardinality(rowsOf(t)) - 1)
      /\ \A r1 \in rowsOf(t), r2 \in rowsOf(t) :
           (r1[2] < r2[2]) <=> (apiRows[r1].position < apiRows[r2].position)

\* createRow has been served three times on a table that was created empty
C12_Witness ==
  /\ apiVariant = "table.ts"
  /\ apiLast.op = "row.create"
  /\ \E t \in DOMAIN apiTables :
       /\ ~rowDeletedFrom(t)
       /\ Cardinality(rowsOf(t)) = 3

\* the positions of the columns deleted from the table
deletedColumnPositions(tableId) ==
  {g.position : g \in {h \in apiGone : h.kind = "column" /\ h.tableId = tableId}}

\* the column of the table that was created last
newestColumn(tableId) ==
  CHOOSE c \in columnsOf(tableId) : \A d \in columnsOf(tableId) : d[2] <= c[2]

\* the column createColumn has just stored holds the greatest position of the
\* other columns of the table plus one (0 in a table without columns)
C13_AssignedNext ==
  (apiLast.op = "column.create" /\ apiLast.outcome = "ok") =>
     LET t == apiLast.input[1]
         others == columnsOf(t) \ {newestColumn(t)}
     IN  apiColumns[newestColumn(t)].position =
           IF others = {} THEN 0 ELSE Max({apiColumns[c].position : c \in others}) + 1

\* no two columns of a table share a position
C13_Unique ==
  \A c1 \in DOMAIN apiColumns, c2 \in DOMAIN apiColumns :
     (apiColumns[c1].tableId = apiColumns[c2].tableId
        /\ apiColumns[c1].position = apiColumns[c2].position) => c1 = c2

\* C13 as stated: over any sequence of createColumn and deleteColumn requests
\* on a table each new column gets position max(existing) + 1, no two columns
\* of the table share a position, and no column holds the position of a
\* column that was deleted from the table.
C13_ColumnPositions ==
  /\ C13_AssignedNext
  /\ C13_Unique
  /\ \A c \in DOMAIN apiColumns :
       apiColumns[c].position \notin deletedColumnPositions(apiColumns[c].tableId)

\* C13: over any sequence of createColumn and deleteColumn requests on a
\* table, served one after another, each new column gets position
\* max(existing) + 1, no two columns of the table share a position, and a
\* column holds the position of a deleted column only if every column that
\* was in the table when it was created has a lower position.
C13_ColumnPositionsReuse ==
  /\ C13_AssignedNext
  /\ C13_Unique
  /\ \A c \in DOMAIN apiColumns :
       apiColumns[c].position \in deletedColumnPositions(apiColumns[c].tableId) =>
         \A d \in columnsOf(apiColumns[c].tableId) :
            d[2] < c[2] => apiColumns[d].position < apiColumns[c].position

\* createColumn has just given a column the position of a deleted column
\* while an older column is still in the table
C13_Witness ==
  /\ apiLast.op = "column.create"
  /\ apiLast.outcome = "ok"
  /\ LET t == apiLast.input[1]
     IN  /\ Cardinality(columnsOf(t)) >= 2
         /\ apiColumns[newestColumn(t)].position \in deletedColumnPositions(t)

\* the procedures that read or change a table, a row, a column or a cell
GuardedOps ==
  {"table.create", "table.getAllByBase", "table.getById", "table.delete",
   "column.getByTableId", "column.create", "column.delete",
   "row.getByTableId", "row.create", "row.delete", "cell.update",
   "base.deleteBase"}

\* C14: every server operation that reads or changes a table, row, column or
\* cell (table create, list, get and delete included) succeeds only when the
\* caller owns the base that contains the entity; a caller who does not own
\* it gets a FORBIDDEN outcome and the stored state is unchanged.
C14_Ownership ==
  /\ [](apiLast.op \in GuardedOps =>
          /\ apiLast.outcome = "ok" => apiLast.caller = apiLast.owner
          /\ apiLast.caller # apiLast.owner => apiLast.outcome = "FORBIDDEN")
  /\ [][(apiLast' # apiLast /\ apiLast'.op \in GuardedOps
           /\ apiLast'.caller # apiLast'.owner) => apiDb' = apiDb]_vars

\* the string is empty or, blanks aside, a signed decimal with optional
\* fraction and exponent whose value is finite
wellFormedNumber(value) ==
  \/ Trim(value) = <<>>
  \/ numberRegex(Trim(value)) /\ parseFloatIsFinite(Trim(value))

\* C15: in every reachable server state the value of every Cell of a NUMBER
\* column is empty or a well-formed number; a cell write by the owner with a
\* malformed value for a NUMBER column fails with a validation error.
C15_StoredNumbers ==
  /\ \A x \in apiCells :
       apiColumns[x.columnId].type = "NUMBER" => wellFormedNumber(x.value)
  /\ (/\ apiLast.op = "cell.update"
      /\ apiLast.caller = apiLast.owner
      /\ apiColumns[apiLast.input[2]].type = "NUMBER"
      /\ ~wellFormedNumber(apiLast.input[3]))
     => apiLast.outcome = "BAD_REQUEST"

\* the table that was created last (no $transaction running: the last one
\* committed)
newestTable == CHOOSE t \in DOMAIN apiTables : \A u \in DOMAIN apiTables : u[2] <= t[2]

\* the table holds the default skeleton: columns Name:TEXT, Age:NUMBER and
\* Email:TEXT at positions 0, 1, 2, three rows at positions 0, 1, 2, and for
\* each row one cell per column, nine cells in all
hasSkeleton(t) ==
  /\ Cardinality(columnsOf(t)) = 3
  /\ {<<apiColumns[c].name, apiColumns[c].type, apiColumns[c].position>> : c \in columnsOf(t)}
       = {<<"Name", "TEXT", 0>>, <<"Age", "NUMBER", 1>>, <<"Email", "TEXT", 2>>}
  /\ Cardinality(rowsOf(t)) = 3
  /\ {apiRows[r].position : r \in rowsOf(t)} = {0, 1, 2}
  /\ \A r \in rowsOf(t), c \in columnsOf(t) : Cardinality(cellsAt(r, c)) = 1
  /\ Cardinality({x \in apiCells : x.rowId \in rowsOf(t)}) = 9

\* nothing of the table the failed createTable was making is stored
nothingStored ==
  (apiTx.pc # "idle" /\ apiTx'.pc = "idle" /\ apiLast'.outcome = "error") =>
     /\ apiTx.tableId \notin DOMAIN apiTables'
     /\ DOMAIN apiTables' = DOMAIN apiTables \ {apiTx.tableId}
     /\ \A c \in DOMAIN apiColumns' : apiColumns'[c].tableId \in DOMAIN apiTables'
     /\ \A r \in DOMAIN apiRows' : apiRows'[r].tableId \in DOMAIN apiTables'
     /\ \A x \in apiCells' : x.rowId \in DOMAIN apiRows' /\ x.columnId \in DOMAIN apiColumns'

\* C16 as stated: createTable provisions, as one atomic operation, a table
\* with 3 columns (Name:TEXT, Age:NUMBER, Email:TEXT at positions 0,1,2) and
\* 3 rows at positions 0,1,2, each row having exactly one cell per column
\* (9 cells); if any step fails nothing of the table is stored.
C16_CreateTable ==
  /\ []((apiTx.pc = "idle" /\ apiLast.op = "table.create" /\ apiLast.outcome = "ok")
          => hasSkeleton(newestTable))
  /\ [][nothingStored]_vars

\* C16: in the router files whose createTable provisions the default
\* skeleton, createTable provisions, as one atomic operation, a table with 3
\* columns (Name:TEXT, Age:NUMBER, Email:TEXT at positions 0,1,2) and 3 rows
\* at positions 0,1,2, each row having exactly one cell per column (9
\* cells); if any step fails nothing of the table is stored.
C16_CreateTableSkeleton ==
  /\ []((provisionsSkeleton(apiVariant) /\ apiTx.pc = "idle"
           /\ apiLast.op = "table.create" /\ apiLast.outcome = "ok")
          => hasSkeleton(newestTable))
  /\ [][nothingStored]_vars

\* a createTable that provisions the skeleton has just succeeded
C16_Witness ==
  /\ provisionsSkeleton(apiVariant)
  /\ apiLast.op = "table.create"
  /\ apiLast.outcome = "ok"
  /\ Cardinality(apiCells) = 9

(***************************************************************************)
(* Claims about the table view (Spec), continued.                          *)
(***************************************************************************)
\* every request has resolved: no cell write, row creation, flush or page
\* fetch is in flight
Quiet ==
  /\ updReqs = {}
  /\ createReq.stage = "idle"
  /\ flushes = <<>>
  /\ pageFetch.stage = "idle"

\* C17: if the user stops interacting, every in-flight request resolves and
\* the reaper keeps ticking, then eventually the pending write ledger and the
\* temp-row registry are both empty and the view equals the server-confirmed
\* rows.  The reaper drops, in one tick, every mapped temp row and every
\* ledger entry once the last local change is older than the threshold, and
\* nothing else removes an entry when no request is in flight; so the claim
\* says of every such tick, taken when all requests have resolved, that it
\* leaves both maps empty and the rows of the view holding the server's
\* values (the tick changes neither the loaded pages nor the database).
C17_EventualConvergence ==
  [][(Quiet /\ autoFinalize /\ now' - lastLocalChange > ReapThreshold) =>
       /\ pendingChanges' = <<>>
       /\ tempCellValues' = <<>>
       /\ \A k \in 1..Len(allRows) :
            allRows[k].cells = RowWithCells(allRows[k].id).cells]_vars

\* the ledger has an entry for the cell
inLedger(pc, rowId, columnId) == rowId \in DOMAIN pc /\ columnId \in DOMAIN pc[rowId]

\* C18: when two writes to the same cell of a confirmed row are in flight and
\* the earlier-dispatched one succeeds first, its success handling neither
\* removes nor changes the ledger entry recorded for the later-dispatched
\* value.
C18_LaterEntryKept ==
  [][\A q \in updReqs :
       (/\ q.stage = "ok"
        /\ q.linkedTempRow = NoId
        /\ updReqs' = updReqs \ {q}
        /\ inLedger(pendingChanges, q.rowId, q.columnId)
        /\ \E later \in updReqs :
             /\ later.n > q.n
             /\ later.rowId = q.rowId /\ later.columnId = q.columnId
             /\ pendingChanges[q.rowId][q.columnId].value = later.value)
       => /\ inLedger(pendingChanges', q.rowId, q.columnId)
          /\ pendingChanges'[q.rowId][q.columnId] = pendingChanges[q.rowId][q.columnId]]_vars

\* C19: a completion of a superseded write is a no-op for the displayed
\* value: when an earlier write to a cell fails or succeeds after the user
\* has entered a later value for the same cell, the cell (of a confirmed
\* row, or of the temp row mapped to it) still displays the later value.
C19_SupersededNoOp ==
  [][\A q \in updReqs, later \in updReqs :
       (/\ updReqs' = updReqs \ {q}
        /\ later.n > q.n
        /\ later.rowId = q.rowId /\ later.columnId = q.columnId
        /\ \A other \in updReqs :
             (other.rowId = q.rowId /\ other.columnId = q.columnId) => other.n <= later.n)
       => \A id \in {q.rowId, later.linkedTempRow} :
            (Rendered(id) /\ shownValue(id, q.columnId) = later.value)
              => (Rendered(id) /\ shownValue(id, q.columnId) = later.value)']_vars

\* C20: an accepted edit to a cell of a temp row that has no confirmed
\* mapping yet stores the value in the temp-row registry only: no cell-write
\* request is dispatched for it, and the pending write ledger, the mapping,
\* the row cache and the stored cells stay as they are.
C20_UnmappedTempEdit ==
  [][nEdits' # nEdits =>
       \A r \in DOMAIN tempCellValues \ DOMAIN tempToRealMapping,
          c \in DOMAIN dbColumns, v \in Values :
         (~FailsNumberValidation(v, c) /\ handleCellUpdate(r, c, v)) =>
            /\ r \in DOMAIN tempCellValues'
            /\ c \in DOMAIN tempCellValues'[r]
            /\ tempCellValues'[r][c] = v
            /\ updReqs' = updReqs
            /\ flushes' = flushes
            /\ lastUpd' = lastUpd
            /\ pendingChanges' = pendingChanges
            /\ tempToRealMapping' = tempToRealMapping
            /\ rowCache' = rowCache
            /\ dbCells' = dbCells]_vars

\* a temp row whose creation has not been confirmed holds an entered value;
\* no cell write is in flight and the ledger is empty
C20_Witness ==
  /\ nEdits >= 1
  /\ createReq.stage = "sent"
  /\ createReq.tempRowId \notin DOMAIN tempToRealMapping
  /\ createReq.tempRowId \in DOMAIN tempCellValues
  /\ \E c \in DOMAIN tempCellValues[createReq.tempRowId] :
       Trim(tempCellValues[createReq.tempRowId][c]) # <<>>
  /\ updReqs = {}
  /\ pendingChanges = <<>>


\* the step on which the flush loop of the real row sends a write: the loop
\* starts (its first entry goes out) or moves on to its next entry
flushDispatch(r) ==
  /\ r \in DOMAIN flushes'
  /\ (r \notin DOMAIN flushes \/ flushes'[r].queue # flushes[r].queue)

\* the step on which the write the loop of the real row was awaiting settles
\* without having been stored
flushFailure(r) ==
  /\ r \in DOMAIN flushes
  /\ flushes[r].stage # "ok"
  /\ (r \notin DOMAIN flushes' \/ flushes'[r].queue # flushes[r].queue)

\* C21: a flush write is only ever dispatched (a) by the step on which the
\* create request of the temp row succeeds, which also records the mapping
\* of the temp row to the real row the write is addressed to, or (b) by the
\* step on which the previous write of the same loop settles, and then it is
\* the next entry of the queue; and when a flush write fails the remaining
\* entries of the queue are still sent, in order.
C21_FlushSequencing ==
  [][\A r \in DOMAIN flushes \cup DOMAIN flushes' :
       /\ (flushDispatch(r) /\ r \notin DOMAIN flushes) =>
             /\ CreateResolves
             /\ createReq.realRow = r
             /\ r \in DOMAIN dbRows
             /\ createReq.tempRowId \in DOMAIN tempToRealMapping'
             /\ tempToRealMapping'[createReq.tempRowId] = r
       /\ (flushDispatch(r) /\ r \in DOMAIN flushes) =>
             flushes'[r] = [queue |-> Tail(flushes[r].queue), stage |-> "sent"]
       /\ flushFailure(r) =>
             IF Len(flushes[r].queue) = 1 THEN r \notin DOMAIN flushes'
             ELSE /\ r \in DOMAIN flushes'
                  /\ flushes'[r] = [queue |-> Tail(flushes[r].queue), stage |-> "sent"]
    ]_vars

\* a loop whose first write was lost has sent its second entry, and the
\* server has stored it
C21_Witness ==
  \E t \in DOMAIN tempToRealMapping :
    LET r == tempToRealMapping[t]
    IN  /\ t \in DOMAIN tempCellValues
        /\ Cardinality(flushEntries(t)) = 2
        /\ r \in DOMAIN flushes
        /\ Len(flushes[r].queue) = 1
        /\ flushes[r].stage = "ok"
        /\ \E c \in DOMAIN dbColumns :
             /\ c # flushes[r].queue[1].columnId
             /\ Trim(ValueOr(tempCellValues, t, c)) # <<>>
             /\ dbCells[<<r, c>>] # validateCellValue(tempCellValues[t][c], dbColumns[c].type).value


\* the step on which createRowMutation.onError runs
CreateFails == createReq.stage = "sent" /\ createReq'.stage = "idle"

\* C22: on the step on which the create-row request fails, the temp row and
\* every value entered into it are still in the registry and the view still
\* renders the row under its temp id with those values; no mapping is
\* recorded, and the registry, the ledger and the row cache are what they
\* were (the view shows, in every state, each temp row of the registry with
\* the values the registry holds for it).
C22_CreateFailureKeepsRow ==
  /\ []TempRowsShowRegistry
  /\ [][CreateFails =>
          \A t \in {createReq.tempRowId} :
            /\ t \in DOMAIN tempCellValues'
            /\ tempCellValues'[t] = tempCellValues[t]
            /\ t \notin DOMAIN tempToRealMapping'
            /\ tempCellValues' = tempCellValues
            /\ tempToRealMapping' = tempToRealMapping
            /\ pendingChanges' = pendingChanges
            /\ rowCache' = rowCache
       ]_vars

\* the create request has failed and the temp row still shows a value the
\* user entered into it
C22_Witness ==
  /\ nAdds = 1
  /\ createReq.stage = "idle"
  /\ tempToRealMapping = <<>>
  /\ DOMAIN dbRows \subseteq {RowId(1), RowId(2)}
  /\ \E t \in DOMAIN tempCellValues, c \in DOMAIN dbColumns :
       /\ c \in DOMAIN tempCellValues[t]
       /\ tempCellValues[t][c] # <<>>
       /\ Rendered(t)
       /\ shownValue(t, c) = tempCellValues[t][c]


\* the temp row holds a value that has not reached the server and that no
\* request is on its way to deliver: the create request of the row failed,
\* or the flush loop of the row is over and the server stores another value
unflushed(t, c) ==
  /\ t \in DOMAIN tempCellValues
  /\ c \in DOMAIN tempCellValues[t]
  /\ Trim(tempCellValues[t][c]) # <<>>
  /\ createReq.stage = "idle"
  /\ IF t \in DOMAIN tempToRealMapping
     THEN LET r == tempToRealMapping[t]
          IN  /\ r \notin DOMAIN flushes
              /\ ~\E q \in updReqs : q.rowId = r /\ q.columnId = c
              /\ dbCells[<<r, c>>] # validateCellValue(tempCellValues[t][c], dbColumns[c].type).value
     ELSE TRUE

\* C23: from a state where a temp row holds values that never reached the
\* server (its create request failed, or a flush write failed), a further
\* accepted edit of a cell of that row dispatches a write for that cell
\* carrying the value entered.  Writes are dispatched by handleCellUpdate
\* itself or by the flush loop the success of the create request starts, so
\* the write is dispatched on the edit step or never.
C23_RetryByReEdit ==
  [][nEdits' # nEdits =>
       \A t \in DOMAIN tempCellValues, c \in DOMAIN dbColumns, v \in Values :
         (/\ \E held \in DOMAIN dbColumns : unflushed(t, held)
          /\ ~FailsNumberValidation(v, c)
          /\ handleCellUpdate(t, c, v)) =>
            \E q \in updReqs' \ updReqs : q.columnId = c /\ q.value = v]_vars


\* the step on which updateCellMutation.onError runs for the write
writeFails(q) == q \in updReqs /\ q.stage # "ok" /\ updReqs' = updReqs \ {q}

\* C24: when a cell write to a confirmed row fails, the row cache is the
\* snapshot taken before the write was applied to it, the ledger has no
\* entry for the cell, and the view shows for the cell the value the server
\* holds (no other write of the cell being in flight, the server's value is
\* the one the client loaded or last had confirmed).
C24_FailedWriteRollback ==
  [][\A q \in updReqs :
       (/\ writeFails(q)
        /\ q.linkedTempRow = NoId
        /\ ~\E other \in updReqs \ {q} : other.rowId = q.rowId /\ other.columnId = q.columnId)
       => /\ rowCache' = q.previousRows
          /\ ~inLedger(pendingChanges', q.rowId, q.columnId)
          /\ (Rendered(q.rowId) =>
                shownValue(q.rowId, q.columnId) = dbCells[<<q.rowId, q.columnId>>])']_vars


\* the value the row cache holds for the cell (none when it holds no such cell)
cachedValue(cache, rowId, columnId) ==
  IF cache.loaded /\ rowId \in DOMAIN cache.rows /\ columnId \in DOMAIN cache.rows[rowId]
  THEN <<cache.rows[rowId][columnId]>> ELSE <<>>

\* the ledger entry of the cell (none when the ledger has no such entry)
ledgerEntry(pc, rowId, columnId) ==
  IF inLedger(pc, rowId, columnId) THEN <<pc[rowId][columnId]>> ELSE <<>>

\* the registry value of the cell (none when the registry has no such value)
registryValue(tcv, rowId, columnId) ==
  IF rowId \in DOMAIN tcv /\ columnId \in DOMAIN tcv[rowId] THEN <<tcv[rowId][columnId]>> ELSE <<>>

\* C25: when a write to one cell fails, its failure handling leaves the
\* row-cache value, the ledger entry and the registry value of every other
\* cell as they were, whatever optimistic writes to those cells are in
\* flight or already applied.
C25_RollbackOnlyAffected ==
  [][\A q \in updReqs :
       writeFails(q) =>
         \A r \in DOMAIN dbRows \cup DOMAIN tempCellValues, c \in DOMAIN dbColumns :
           (<<r, c>> # <<q.rowId, q.columnId>> /\ <<r, c>> # <<q.linkedTempRow, q.columnId>>) =>
              /\ cachedValue(rowCache', r, c) = cachedValue(rowCache, r, c)
              /\ ledgerEntry(pendingChanges', r, c) = ledgerEntry(pendingChanges, r, c)
              /\ registryValue(tempCellValues', r, c) = registryValue(tempCellValues, r, c)]_vars


\* C26: when a cell write that targeted a mapped temp row fails, the
\* registry holds for the cell of the temp row what it held before the
\* failed edit (the same value, or none if it held none), and the other
\* cells of the temp row are unchanged.  The failed write is the only one
\* in flight for the cell, so no other edit of the cell lies in between.
C26_TempRollback ==
  [][\A q \in updReqs :
       (/\ writeFails(q)
        /\ q.linkedTempRow # NoId
        /\ ~\E other \in updReqs \ {q} : other.rowId = q.rowId /\ other.columnId = q.columnId)
       => /\ registryValue(tempCellValues', q.linkedTempRow, q.columnId) = q.replaced
          /\ \A c \in DOMAIN dbColumns \ {q.columnId} :
               registryValue(tempCellValues', q.linkedTempRow, c)
                 = registryValue(tempCellValues, q.linkedTempRow, c)]_vars


\* C27: a reaper tick at which the last local edit is older than the
\* inactivity threshold retires every temp row that has a confirmed real id
\* (its value-map entry and its mapping entry are removed) and the view then
\* renders the real row in its place; a tick at which the last local edit is
\* inside the threshold retires no temp row.
C27_ReaperHandoff ==
  [][autoFinalize =>
       IF now' - lastLocalChange > ReapThreshold
       THEN \A t \in DOMAIN tempToRealMapping :
              \A r \in {tempToRealMapping[t]} :
                /\ t \notin DOMAIN tempCellValues'
                /\ t \notin DOMAIN tempToRealMapping'
                /\ (t \in DOMAIN tempCellValues /\ Rendered(t)) =>
                      (~Rendered(t) /\ Rendered(r))'
       ELSE /\ tempCellValues' = tempCellValues
            /\ tempToRealMapping' = tempToRealMapping]_vars


\* C28: every reaper tick drops every ledger entry whose timestamp is older
\* than the threshold, whether or not a write of the cell is still in flight
\* and whether or not the last local edit is inside the threshold; it keeps
\* every other entry as it is, and leaves no row without entries in the
\* ledger.
C28_LedgerExpiry ==
  [][autoFinalize =>
       /\ \A r \in DOMAIN pendingChanges : \A c \in DOMAIN pendingChanges[r] :
            ledgerEntry(pendingChanges', r, c) =
              IF now' - pendingChanges[r][c].timestamp > ReapThreshold
              THEN <<>> ELSE <<pendingChanges[r][c]>>
       /\ \A r \in DOMAIN pendingChanges' :
            /\ r \in DOMAIN pendingChanges
            /\ DOMAIN pendingChanges'[r] # {}
            /\ DOMAIN pendingChanges'[r] \subseteq DOMAIN pendingChanges[r]]_vars

\* a tick taken while the user was active has dropped the entry of a write
\* that is still in flight and kept the entry of a younger one
C28_Witness ==
  \E old \in updReqs, young \in updReqs :
    /\ old.n < young.n
    /\ old.columnId # young.columnId
    /\ old.linkedTempRow = NoId /\ young.linkedTempRow = NoId
    /\ old.stage = "sent"
    /\ ~inLedger(pendingChanges, old.rowId, old.columnId)
    /\ inLedger(pendingChanges, young.rowId, young.columnId)
    /\ now - pendingChanges[young.rowId][young.columnId].timestamp = ReapThreshold
    /\ ~(now - lastLocalChange > ReapThreshold)


\* C29: every accepted edit of a cell of a confirmed row, or of a temp row
\* that has a confirmed mapping, dispatches a write that carries the value
\* entered to the real row id, whatever the accepted value (a blank one
\* included).
C29_EditDispatchesWrite ==
  [][nEdits' # nEdits =>
       \A id \in DOMAIN dbRows \cup DOMAIN tempToRealMapping,
          c \in DOMAIN dbColumns, v \in Values :
         (~FailsNumberValidation(v, c) /\ handleCellUpdate(id, c, v)) =>
            \E q \in updReqs' \ updReqs :
              q.rowId = Logical(id) /\ q.columnId = c /\ q.value = v]_vars


\* C30: the step that confirms a temp row (the create request succeeds)
\* records the mapping of the temp row to its real row and leaves the
\* registry entry of the temp row and its values as they are; the view shows
\* every temp row of the registry under its temp id; and a confirmed temp
\* row stays in the registry, so rendered under its temp id, on every step
\* but a reaper tick (the view has no operation that deletes a row).
C30_ConfirmOnlyMaps ==
  /\ []TempRowsShowRegistry
  /\ [][CreateResolves =>
          /\ tempToRealMapping' = Merge(tempToRealMapping, createReq.tempRowId :> createReq.realRow)
          /\ tempCellValues' = tempCellValues
          /\ createReq.tempRowId \in DOMAIN tempCellValues']_vars
  /\ [][\A t \in DOMAIN tempToRealMapping \cap DOMAIN tempCellValues :
          t \in DOMAIN tempCellValues' \/ autoFinalize]_vars


\* the place of the row in the view
placeOf(view, id) == CHOOSE k \in 1..Len(view) : view[k].id = id

\* C31: in every reachable state every temp row of the registry that is not
\* yet reconciled with a real row (it has no confirmed mapping) is in the
\* view, stands after every confirmed row of the view, and has a position
\* greater than the position of every real row of the table, whatever the
\* positions of the table's rows.
C31_TempRowLast ==
  LET view == tableData
  IN  \A t \in DOMAIN tempCellValues \ DOMAIN tempToRealMapping :
        /\ HasRow(view, t)
        /\ \A k \in 1..Len(view) : ~IsTemp(view[k].id) => k < placeOf(view, t)
        /\ \A r \in DOMAIN dbRows : FindRow(view, t).position > dbRows[r].position


C36_WriteStoreIsViewStore ==
  [][\A q \in updReqs :
       (/\ q.stage = "ok"
        /\ updReqs' = updReqs \ {q}
        /\ updReqs = {q}
        /\ nEdits = 1
        /\ nAdds = 0
        /\ q.linkedTempRow = NoId
        /\ inLedger(pendingChanges, q.rowId, q.columnId)
        /\ Rendered(q.rowId))
       => /\ shownValue(q.rowId, q.columnId) = q.value
          /\ ~inLedger(pendingChanges', q.rowId, q.columnId)
          /\ (shownValue(q.rowId, q.columnId))' = q.value]_vars


\* C37: the failure handling of a cell write that targeted a mapped temp row
\* of the registry leaves that temp row in the registry and in the view, also
\* when the failed value was the only value of the row.
C37_FailedWriteKeepsRow ==
  [][\A q \in updReqs :
       (/\ writeFails(q)
        /\ q.linkedTempRow # NoId
        /\ q.linkedTempRow \in DOMAIN tempCellValues
        /\ q.linkedTempRow \in DOMAIN tempToRealMapping
        /\ Rendered(q.linkedTempRow))
       => /\ q.linkedTempRow \in DOMAIN tempCellValues'
          /\ (Rendered(q.linkedTempRow))']_vars


\* the items of the pages, in the order they were returned
RECURSIVE itemsOf(_)
itemsOf(pages) ==
  IF pages = <<>> THEN <<>>
  ELSE itemsOf(SubSeq(pages, 1, Len(pages) - 1)) \o pages[Len(pages)].items

\* C38: once the calls that follow nextCursor from the first page have come
\* to the page without nextCursor, the items returned are the rows of the
\* table, every row exactly once, in ascending order of position, for every
\* limit and every relation between the ids and the positions of the rows.
C38_PaginationComplete ==
  pgPhase = "done" => itemsOf(pgPages) = AllRowsSorted


\* a cell write or a flush write for the real row of the temp row is in flight
writeInFlight(tempRowId) ==
  \/ \E q \in updReqs : q.linkedTempRow = tempRowId \/ q.rowId = tempToRealMapping[tempRowId]
  \/ tempToRealMapping[tempRowId] \in DOMAIN flushes

\* a reaper tick leaves every temp row without a confirmed mapping in the
\* registry with the values it has
C39_UnmappedUntouched ==
  [][autoFinalize =>
       \A t \in DOMAIN tempCellValues \ DOMAIN tempToRealMapping :
         t \in DOMAIN tempCellValues' /\ tempCellValues'[t] = tempCellValues[t]]_vars

\* C39: a reaper tick leaves every temp row without a confirmed mapping, and
\* the values entered into it, unchanged in the registry, and it retires a
\* mapped temp row only when no cell write and no flush write for that row is
\* in flight.
C39_ReaperKeepsUnsaved ==
  [][autoFinalize =>
       /\ \A t \in DOMAIN tempCellValues \ DOMAIN tempToRealMapping :
            t \in DOMAIN tempCellValues' /\ tempCellValues'[t] = tempCellValues[t]
       /\ \A t \in DOMAIN tempCellValues \cap DOMAIN tempToRealMapping :
            t \notin DOMAIN tempCellValues' => ~writeInFlight(t)]_vars


\* the number of entries of the column list with the id
timesListed(list, id) == Cardinality({i \in 1..Len(list) : list[i].id = id})

C33_DeleteRemovesRow ==
  [][/\ \A q \in delReqs' \ delReqs :
          q.stage = "sent" =>
            /\ q.id \notin shownIds'
            /\ IF q.wasTempRow
               THEN /\ q.id \notin DOMAIN tempCellValues'
                    /\ q.id \notin DOMAIN tempToRealMapping'
                    /\ q.realRowId \notin shownIds'
               ELSE /\ q.id \notin DOMAIN rowCache'.rows
                    /\ \A t \in DOMAIN tempToRealMapping :
                         tempToRealMapping[t] = q.id =>
                           /\ t \notin DOMAIN tempCellValues'
                           /\ t \notin DOMAIN tempToRealMapping'
                           /\ t \notin shownIds'
                    /\ q.id \notin DOMAIN pendingChanges'
     /\ \A q \in delReqs :
          (q.wasTempRow /\ q.stage \in {"sent", "forbidden"}
             /\ delReqs' = (delReqs \ {q}) \cup {[q EXCEPT !.stage = "failed"]}) =>
            /\ q.id \notin DOMAIN tempCellValues'
            /\ q.id \notin shownIds']_vars


\* C40: the delete request of a temp row that is mapped to a confirmed row
\* carries the id of the confirmed row; once the request has succeeded the
\* server does not store that row and the view does not show it.
C40_MappedDeleteReachesServer ==
  \A q \in delReqs :
    (q.wasTempRow /\ q.realRowId # NoId) =>
       /\ q.id = q.realRowId
       /\ q.stage = "done" => (q.realRowId \notin DOMAIN dbRows /\ q.realRowId \notin shownIds)

====
